---- MODULE Spec2Model ----
(***************************************************************************)
(* Model of the book availability resolution of mcp-book-search:          *)
(* CalilApiService (src/src/services/calilApi.ts, the class at lines      *)
(* 296-544) as driven by concurrent tool calls.  One resolution is one    *)
(* call of searchBookInCity; its awaits (fetch, setTimeout) are the       *)
(* points at which the model splits it into actions.                      *)
(***************************************************************************)
EXTENDS Integers, Sequences, FiniteSets, TLC

(***************************************************************************)
(* JavaScript values.  Every value is a tagged record, so that values of  *)
(* different JavaScript types can be compared.  An object keeps its       *)
(* properties as a sequence of key/value pairs, in insertion order, which *)
(* is the order `for ... in` visits them.                                 *)
(***************************************************************************)
\* A string is the sequence of its pieces (each piece an atomic run of
\* characters that no operation of the program splits): "" is << >>,
\* concatenation is \o, and substring search works on pieces.
Undefined == [t |-> "undefined"]

Null == [t |-> "null"]

Str(s) == [t |-> "string", s |-> s]

Num(n) == [t |-> "number", n |-> n]

Arr(el) == [t |-> "array", el |-> el]

Obj(kv) == [t |-> "object", kv |-> kv]

Prop(k, v) == [k |-> k, v |-> v]

\* Reading a property of null or undefined throws a TypeError.
Readable(o) == o.t \notin {"undefined", "null"}

\* o[k] for a readable o: the value of the object's property k, else undefined.
Get(o, k) ==
    IF o.t = "object" /\ \E j \in 1..Len(o.kv) : o.kv[j].k = k
    THEN o.kv[CHOOSE j \in 1..Len(o.kv) : o.kv[j].k = k].v
    ELSE Undefined

\* o.name for a fixed property name.
Field(o, name) == Get(o, <<name>>)

\* ToBoolean(v), as used by `!v`, `v || w`, `v && w` and `if (v)`.
Truthy(v) ==
    CASE v.t \in {"undefined", "null"} -> FALSE
      [] v.t = "string" -> v.s # << >>
      [] v.t = "number" -> v.n # 0
      [] OTHER -> TRUE

\* v === w for a primitive w.
StrictEquals(v, w) == v = w

\* Array.isArray(v)
IsArray(v) == v.t = "array"

\* String(v), the conversion of template literals and of URLSearchParams.
ToStr(v) ==
    CASE v.t = "string" -> v.s
      [] v.t = "number" -> <<ToString(v.n)>>
      [] v.t = "undefined" -> <<"undefined">>
      [] v.t = "null" -> <<"null">>
      [] v.t = "array" -> <<"[array]">>
      [] OTHER -> <<"[object Object]">>

(***************************************************************************)
(* Thrown errors and completions.  A function of the program either       *)
(* returns a value or throws an error with a class name and a message.    *)
(***************************************************************************)
Err(name, message) == [name |-> name, message |-> message]

Return(v) == [how |-> "return", v |-> v]

Throw(e) == [how |-> "throw", e |-> e]

(***************************************************************************)
(* Wire text.  A response body is a sequence of lexemes: the JSONP prefix *)
(* "callback(", another call prefix, the terminator ");", white space, a  *)
(* complete JSON document (carrying the value it denotes) or text that is *)
(* not JSON at all.                                                       *)
(***************************************************************************)
LexCallback == [lex |-> "callback("]

LexOtherCall == [lex |-> "jsonp("]

LexEnd == [lex |-> ");"]

LexSpace == [lex |-> " "]

LexJunk == [lex |-> "<html>"]

LexJson(v) == [lex |-> "json", v |-> v]

\* text.startsWith('callback(')
StartsWithCallback(text) == Len(text) >= 1 /\ text[1] = LexCallback

\* text.endsWith(');')
EndsWithTerminator(text) == Len(text) >= 1 /\ text[Len(text)] = LexEnd

\* text.replace(/^callback\(/, '')
StripPrefix(text) == IF StartsWithCallback(text) THEN Tail(text) ELSE text

\* Mutant: the terminator is left in place.
StripSuffixKept(text) == text

\* text.replace(/\);$/, '')
StripSuffix(text) ==
    IF EndsWithTerminator(text) THEN SubSeq(text, 1, Len(text) - 1) ELSE text

RECURSIVE TrimLeft(_)
TrimLeft(text) ==
    IF text # <<>> /\ Head(text) = LexSpace THEN TrimLeft(Tail(text)) ELSE text

RECURSIVE TrimRight(_)
TrimRight(text) ==
    IF text # <<>> /\ text[Len(text)] = LexSpace
    THEN TrimRight(SubSeq(text, 1, Len(text) - 1))
    ELSE text

\* JSON.parse(text): one JSON document, white space allowed around it;
\* anything else is a SyntaxError.
JsonParse(text) ==
    LET body == TrimRight(TrimLeft(text)) IN
    IF Len(body) = 1 /\ body[1].lex = "json"
    THEN Return(body[1].v)
    ELSE Throw(Err("SyntaxError", <<"Unexpected token in JSON">>))

\* Mutant: the wrapper is stripped without the test for both ends (as lines
\* 214-221 do).
parseJsonpResponseStripsAlways(text) == JsonParse(StripSuffix(StripPrefix(text)))

\* CalilApiService.parseJsonpResponse
parseJsonpResponse(text) ==
    IF StartsWithCallback(text) /\ EndsWithTerminator(text)
    THEN JsonParse(StripSuffix(StripPrefix(text)))
    ELSE JsonParse(text)

(***************************************************************************)
(* HTTP.  A request is the endpoint and its query parameters; fetch       *)
(* either resolves to a response (status and body text) or rejects.       *)
(***************************************************************************)
\* process.env.CALIL_APPLICATION_KEY as read at module load.
CALIL_API_KEY == <<"appkey-1">>

HttpResponse(status, text) == [net |-> "response", status |-> status, text |-> text]

NetworkFailure == [net |-> "failure"]

\* Mutant: only server errors count as failures.
OkLenient(resp) == resp.status < 500

\* response.ok
Ok(resp) == resp.status \in 200..299

FetchError == Err("FetchError", <<"request to api.calil.jp failed">>)

\* new Error(`API call failed with status: ${response.status}`)
ApiCallFailed(status) ==
    Err("Error", <<"API call failed with status: ", ToString(status)>>)

(***************************************************************************)
(* getLibraries: the request it issues, and what it returns or throws     *)
(* once fetch has settled with resp.                                      *)
(***************************************************************************)
getLibrariesRequest(pref, city) ==
    IF city # << >>
    THEN [endpoint |-> "library",
          params |-> [appkey |-> CALIL_API_KEY, format |-> <<"json">>,
                      pref |-> pref, city |-> city]]
    ELSE [endpoint |-> "library",
          params |-> [appkey |-> CALIL_API_KEY, format |-> <<"json">>,
                      pref |-> pref]]

\* Mutant: a body that cannot be decoded counts as an empty directory.
getLibrariesDefaulting(resp) ==
    IF resp.net = "failure" THEN Throw(FetchError)
    ELSE IF ~Ok(resp) THEN Throw(ApiCallFailed(resp.status))
    ELSE LET libraries == parseJsonpResponse(resp.text) IN
         Return(IF libraries.how = "return" /\ IsArray(libraries.v)
                THEN libraries.v.el ELSE << >>)

\* lines 334-350, once fetch has settled with resp.
getLibraries(resp) ==
    IF resp.net = "failure" THEN Throw(FetchError)
    ELSE IF ~Ok(resp) THEN Throw(ApiCallFailed(resp.status))
    ELSE LET libraries == parseJsonpResponse(resp.text) IN
         IF libraries.how = "throw" THEN libraries
         ELSE Return(IF IsArray(libraries.v) THEN libraries.v.el ELSE << >>)

(***************************************************************************)
(* checkBooks and pollResults.                                            *)
(***************************************************************************)
checkBooksRequest(isbn, systemids) ==
    [endpoint |-> "check",
     params |-> [appkey |-> CALIL_API_KEY, isbn |-> isbn,
                 systemid |-> systemids, format |-> <<"json">>]]

pollResultsRequest(session) ==
    [endpoint |-> "check",
     params |-> [appkey |-> CALIL_API_KEY, session |-> ToStr(session),
                 format |-> <<"json">>]]

\* The decoded body of a check-endpoint response, or what reading it throws.
\* `result.continue` throws a TypeError when the body decodes to null.
CheckBody(resp) ==
    IF resp.net = "failure" THEN Throw(FetchError)
    ELSE IF ~Ok(resp) THEN Throw(ApiCallFailed(resp.status))
    ELSE LET result == parseJsonpResponse(resp.text) IN
         IF result.how = "throw" THEN result
         ELSE IF ~Readable(result.v)
         THEN Throw(Err("TypeError", <<"Cannot read properties of null">>))
         ELSE result

\* Mutant: `=` for `===` makes the test always true.
NeedsPollingAlways(result) == TRUE

\* checkBooks, line 383: result.continue === 1
NeedsPolling(result) == StrictEquals(Field(result, "continue"), Num(1))

\* Mutant: every flag other than 1 counts as complete.
PollingCompleteUnlessOne(result) == ~StrictEquals(Field(result, "continue"), Num(1))

\* Mutant: the completion test reads the flag the wrong way round.
PollingCompleteInverted(result) == StrictEquals(Field(result, "continue"), Num(1))

\* pollResults, line 423: result.continue === 0
PollingComplete(result) == StrictEquals(Field(result, "continue"), Num(0))

\* pollResults' default round budget.
maxRetries == 5

\* Mutant: the loop bound is off by one.
LoopContinuesOneMore(i) == i <= maxRetries

\* line 400: the loop condition i < maxRetries
LoopContinues(i) == i < maxRetries

\* Mutant: the timeout is raised as one more failed API call.
PollingTimedOutAsStatus == Err("Error", <<"API call failed with status: ", "408">>)

\* new Error(`Polling timed out after ${maxRetries} attempts`)
PollingTimedOut ==
    Err("Error", <<"Polling timed out after ", ToString(maxRetries), " attempts">>)

\* checkBooks once fetch has settled with resp: it returns the body, throws,
\* or hands the body's session to pollResults.
checkBooks(resp) ==
    LET body == CheckBody(resp) IN
    IF body.how = "throw" THEN body
    ELSE IF NeedsPolling(body.v)
    THEN [how |-> "poll", session |-> Field(body.v, "session")]
    ELSE body

\* Mutant: a round that failed is tried again while the budget lasts.
pollResultsRetrying(resp, i) ==
    LET body == CheckBody(resp) IN
    IF body.how = "throw" /\ LoopContinues(i + 1) THEN [how |-> "again"]
    ELSE IF body.how = "throw" THEN body
    ELSE IF PollingComplete(body.v) THEN body
    ELSE IF LoopContinues(i + 1) THEN [how |-> "again"]
    ELSE Throw(PollingTimedOut)

\* One round of pollResults' loop, with loop counter i, once fetch has settled
\* with resp: it returns the body, throws, or goes round again.
pollResults(resp, i) ==
    LET body == CheckBody(resp) IN
    IF body.how = "throw" THEN body
    ELSE IF PollingComplete(body.v) THEN body
    ELSE IF LoopContinues(i + 1) THEN [how |-> "again"]
    ELSE Throw(PollingTimedOut)

(***************************************************************************)
(* formatBookResult: the merge of a check payload with the libraries of   *)
(* the area.                                                              *)
(***************************************************************************)
\* The lending status used when the payload has none: '不明' (unknown).
StatusUnknown == <<"fumei">>

\* The lending status of a library that does not hold the title: '蔵書なし'.
NoHoldings == <<"zousho-nashi">>

TypeErrorRead == Err("TypeError", <<"Cannot read properties of null">>)

TypeErrorReplace == Err("TypeError", <<"reserveurl.replace is not a function">>)

\* Mutant: the keys are visited last to first.
KeysReversed(o) ==
    IF o.t = "object" THEN [j \in 1..Len(o.kv) |-> o.kv[Len(o.kv) + 1 - j].k] ELSE << >>

\* The keys `for (const k in o)` visits; the payloads of the model keep the
\* iterated values objects with non-numeric keys.
Keys(o) == IF o.t = "object" THEN [j \in 1..Len(o.kv) |-> o.kv[j].k] ELSE << >>

\* s.replace(piece, value): the first occurrence only.
ReplaceFirst(s, piece, value) ==
    IF \E j \in 1..Len(s) : s[j] = piece
    THEN LET j == CHOOSE n \in 1..Len(s) :
                      s[n] = piece /\ \A m \in 1..(n - 1) : s[m] # piece
         IN SubSeq(s, 1, j - 1) \o value \o SubSeq(s, j + 1, Len(s))
    ELSE s

\* Mutant: the first library of the system stands in for every key.
FindLibraryAny(systemLibraries, libKey) == systemLibraries

\* line 507: systemLibraries.find(lib => lib.libkey === libKey), as the list
\* of matches, of which `find` yields the first (none: undefined).
FindLibrary(systemLibraries, libKey) ==
    SelectSeq(systemLibraries, LAMBDA lib : Field(lib, "libkey") = Str(libKey))

\* Mutant: no fallback for a missing status.
LendingStatusAsIs(value) == value

\* line 516: systemData.libkey[libKey] || '不明'
LendingStatus(value) == IF Truthy(value) THEN value ELSE Str(StatusUnknown)

\* Mutant: a reservation URL whenever the system has a template.
OffersReservationAlways(reserveurl, lendingStatus) == Truthy(reserveurl)

\* line 522: systemData.reserveurl && lendingStatus !== '蔵書なし'
OffersReservation(reserveurl, lendingStatus) ==
    Truthy(reserveurl) /\ lendingStatus # Str(NoHoldings)

\* Lines 506-535 for one library key of a usable system: the entries pushed
\* (none or one), or the error thrown.
FormatLibKey(libKey, systemData, systemId, systemLibraries, isbn) ==
    LET matches == FindLibrary(systemLibraries, libKey)
        lendingStatus == LendingStatus(Get(Field(systemData, "libkey"), libKey))
        reserveurl == Field(systemData, "reserveurl")
    IN  IF matches = << >> THEN Return(<< >>)
        ELSE IF OffersReservation(reserveurl, lendingStatus)
        THEN IF reserveurl.t # "string" THEN Throw(TypeErrorReplace)
             ELSE Return(<<[name |-> Field(matches[1], "formal"),
                            status |-> lendingStatus,
                            reserveUrl |-> Str(ReplaceFirst(ReplaceFirst(ReplaceFirst(
                                reserveurl.s, "{{isbn}}", isbn),
                                "{{systemid}}", systemId),
                                "{{libkey}}", libKey))]>>)
        ELSE Return(<<[name |-> Field(matches[1], "formal"),
                       status |-> lendingStatus,
                       reserveUrl |-> Null]>>)

RECURSIVE FormatLibKeys(_, _, _, _, _)
FormatLibKeys(libKeys, systemData, systemId, systemLibraries, isbn) ==
    IF libKeys = << >> THEN Return(<< >>)
    ELSE LET first == FormatLibKey(Head(libKeys), systemData, systemId,
                                   systemLibraries, isbn)
         IN IF first.how = "throw" THEN first
            ELSE LET rest == FormatLibKeys(Tail(libKeys), systemData, systemId,
                                           systemLibraries, isbn)
                 IN IF rest.how = "throw" THEN rest
                    ELSE Return(first.v \o rest.v)

\* Mutant: only the status Error is skipped.
UsableUnlessError(systemData) == Field(systemData, "status") # Str(<<"Error">>)

\* line 491: the system's status is OK or Cache
Usable(systemData) ==
    ~ (Field(systemData, "status") # Str(<<"OK">>)
       /\ Field(systemData, "status") # Str(<<"Cache">>))

\* Mutant: the libraries of every system.
SystemLibrariesAll(libraries, systemId) == libraries

\* line 497: libraries.filter(lib => lib.systemid === systemId)
SystemLibraries(libraries, systemId) ==
    SelectSeq(libraries, LAMBDA lib : Field(lib, "systemid") = Str(systemId))

\* Lines 487-535 for one system of the payload.
FormatSystem(systemId, systemData, libraries, isbn) ==
    IF ~Readable(systemData) THEN Throw(TypeErrorRead)
    ELSE IF ~Usable(systemData) THEN Return(<< >>)
    ELSE IF \E j \in 1..Len(libraries) : ~Readable(libraries[j])
    THEN Throw(TypeErrorRead)
    ELSE IF ~Truthy(Field(systemData, "libkey")) THEN Return(<< >>)
    ELSE FormatLibKeys(Keys(Field(systemData, "libkey")), systemData, systemId,
                       SystemLibraries(libraries, systemId), isbn)

RECURSIVE FormatSystems(_, _, _)
FormatSystems(bookData, libraries, isbn) ==
    IF bookData = << >> THEN Return(<< >>)
    ELSE LET first == FormatSystem(bookData[1].k, bookData[1].v, libraries, isbn)
         IN IF first.how = "throw" THEN first
            ELSE LET rest == FormatSystems(Tail(bookData), libraries, isbn)
                 IN IF rest.how = "throw" THEN rest
                    ELSE Return(first.v \o rest.v)

\* formatBookResult's catch, lines 539-542: the error becomes a returned object.
FormatCatch(e) == [error |-> e.message]

\* Mutant: the report of a payload without data loses the isbn.
EmptyReportIsbnLost(isbn) == [isbn |-> << >>, libraries |-> << >>]

\* lines 472-475: result = { isbn: isbn, libraries: [] }
EmptyReport(isbn) == [isbn |-> isbn, libraries |-> << >>]

\* The try block of formatBookResult, lines 469-538.
FormatTry(bookResponse, libraries, isbn) ==
    IF ~Readable(bookResponse) THEN Throw(TypeErrorRead)
    ELSE IF ~Truthy(Field(bookResponse, "books"))
            \/ ~Truthy(Get(Field(bookResponse, "books"), isbn))
    THEN Return(EmptyReport(isbn))
    ELSE LET bookData == Get(Field(bookResponse, "books"), isbn)
             entries == FormatSystems(IF bookData.t = "object" THEN bookData.kv
                                      ELSE << >>, libraries, isbn)
         IN IF entries.how = "throw" THEN entries
            ELSE Return([isbn |-> isbn, libraries |-> entries.v])

formatBookResult(bookResponse, libraries, isbn) ==
    LET result == FormatTry(bookResponse, libraries, isbn) IN
    IF result.how = "throw" THEN FormatCatch(result.e) ELSE result.v

(***************************************************************************)
(* searchBookInCity: the pieces between its awaits.                       *)
(***************************************************************************)
\* Mutant: `libraries === []`, which no array satisfies.
NoLibrariesNever(libraries) == FALSE

\* line 446: libraries.length === 0
NoLibraries(libraries) == Len(libraries) = 0

\* Mutant: the message names the city before the prefecture.
NoLibrariesFoundSwapped(pref, city) ==
    [error |-> <<"No libraries found in ">> \o city \o <<", ">> \o pref]

\* line 447: { error: `No libraries found in ${pref}, ${city}` }
NoLibrariesFound(pref, city) ==
    [error |-> <<"No libraries found in ">> \o pref \o <<", ">> \o city]

\* Mutant: the values are not deduplicated.
DistinctKept(values) == values

\* [...new Set(values)]: the distinct values, in order of first occurrence.
RECURSIVE Distinct(_)
Distinct(values) ==
    IF values = << >> THEN << >>
    ELSE LET init == Distinct(SubSeq(values, 1, Len(values) - 1))
             last == values[Len(values)]
         IN IF \E j \in 1..Len(init) : init[j] = last THEN init
            ELSE Append(init, last)

\* values.join(','): undefined and null join as the empty string.
RECURSIVE Join(_)
Join(values) ==
    IF values = << >> THEN << >>
    ELSE LET head == IF Readable(Head(values)) THEN ToStr(Head(values)) ELSE << >>
         IN IF Len(values) = 1 THEN head
            ELSE head \o <<",">> \o Join(Tail(values))

\* line 451: the comma-joined distinct system IDs; lib.systemid throws on a
\* null element.
SystemIds(libraries) ==
    IF \E j \in 1..Len(libraries) : ~Readable(libraries[j])
    THEN Throw(TypeErrorRead)
    ELSE Return(Join(Distinct([j \in 1..Len(libraries) |->
                                  Field(libraries[j], "systemid")])))

\* Mutant: the catch answers with an empty report.
SearchCatchEmptyReport(e) == Return([isbn |-> << >>, libraries |-> << >>])

\* Mutant: the catch logs the error and throws it again.
SearchCatchRethrowing(e) == Throw(e)

\* lines 458-461: the catch of searchBookInCity turns every error into a
\* returned object holding the error's message.
SearchCatch(e) == Return([error |-> e.message])

(***************************************************************************)
(* The upstream service: what the directory endpoint and the check        *)
(* endpoint may answer.                                                   *)
(***************************************************************************)
\* The longest library list the directory endpoint returns in the model.
MaxLibraries == 2

SeqsUpTo(S, n) == UNION {[1..m -> S] : m \in 0..n}

P(name, v) == Prop(<<name>>, v)

\* The address of a library: the university's system lies in the next city.
Address(systemid) ==
    IF systemid = "Univ_Chiba" THEN <<"Narashino-shi", " 1-1">> ELSE <<"Chiba-shi", " 1-1">>

Library(systemid, libkey) ==
    Obj(<<P("systemid", Str(<<systemid>>)), P("libkey", Str(<<libkey>>)),
          P("formal", Str(<<systemid, "/", libkey>>)),
          P("address", Str(Address(systemid)))>>)

LibraryRecords ==
    {Library("Chiba_Chiba", "chuo"), Library("Chiba_Chiba", "nishi"),
     Library("Univ_Chiba", "chuo")}

\* Decoded directory payloads: arrays of library records, an array holding
\* null, and the object keyed by system.
DirectoryBodies ==
    {Arr(libs) : libs \in SeqsUpTo(LibraryRecords, MaxLibraries)}
    \cup {Arr(<<Null>>),
          Obj(<<Prop(<<"Chiba_Chiba">>,
                     Obj(<<P("libkey", Obj(<<Prop(<<"chuo">>, Obj(<< >>))>>))>>))>>)}

Isbns == {<< >>, <<"4299062647">>}

Prefectures == {<<"Chiba-ken">>}

Cities == {<<"Chiba-shi">>}

Sessions == {<<"S1">>, <<"S2">>}

ContinueValues == {Num(0), Num(1), Num(2), Undefined}

ReserveTemplate == <<"https://reserve/", "{{isbn}}", "/", "{{systemid}}", "/", "{{libkey}}">>

\* A template that names the ISBN twice.
ReserveTemplateTwice ==
    <<"https://reserve/", "{{isbn}}", "?again=", "{{isbn}}", "&lib=", "{{libkey}}">>

\* books[isbn] of a check payload: a system still running, a system with a
\* settled answer, and a system whose data is null.
BooksValues ==
    {Undefined,
     Obj(<<Prop(<<"4299062647">>, Obj(<<Prop(<<"Chiba_Chiba">>,
            Obj(<<P("status", Str(<<"Running">>)), P("libkey", Obj(<< >>))>>))>>))>>),
     Obj(<<Prop(<<"4299062647">>, Obj(<<Prop(<<"Chiba_Chiba">>,
            Obj(<<P("status", Str(<<"OK">>)),
                  P("libkey", Obj(<<Prop(<<"chuo">>, Str(<<"kashidashi-ka">>))>>)),
                  P("reserveurl", Str(ReserveTemplate))>>))>>))>>),
     Obj(<<Prop(<<"4299062647">>, Obj(<<Prop(<<"Chiba_Chiba">>, Null)>>))>>)}

\* { session, continue, books }, a property left out when its value is undefined.
BookResponse(session, continue, books) ==
    Obj(<<P("session", Str(session))>>
        \o (IF continue = Undefined THEN << >> ELSE <<P("continue", continue)>>)
        \o (IF books = Undefined THEN << >> ELSE <<P("books", books)>>))

CheckBodies ==
    {Null} \cup {BookResponse(s, c, b) :
                    s \in Sessions, c \in ContinueValues, b \in BooksValues}

\* A body as bare JSON or inside the JSONP wrapper.
Texts(bodies) ==
    {<<LexJson(b)>> : b \in bodies}
    \cup {<<LexCallback, LexJson(b), LexEnd>> : b \in bodies}
    \cup {<<LexJunk>>}

Responses(bodies) ==
    {HttpResponse(200, text) : text \in Texts(bodies)}
    \cup {HttpResponse(status, <<LexJunk>>) : status \in {404, 500}}
    \cup {NetworkFailure}

(***************************************************************************)
(* State.  Each resolution (one call of searchBookInCity) has its own     *)
(* locals; the requests in flight are the only thing outside them.        *)
(***************************************************************************)
VARIABLES
    callers,    \* the resolutions this run starts
    pc,         \* where each resolution stands: idle, at one of its awaits, done
    args,       \* searchBookInCity's isbn, pref, city
    libraries,  \* searchBookInCity's `libraries`
    session,    \* pollResults' `session`
    i,          \* pollResults' loop counter
    outcome,    \* how searchBookInCity's promise settled
    net,        \* requests sent and not yet answered
    events,     \* history: what each resolution did, in order
    observed,   \* history: `continue` of the last check-endpoint response
    lastStatus, \* history: HTTP status of the last response (0: none)
    raised,     \* history: the error thrown inside searchBookInCity's try
    initial,    \* history: body of the initiating check response
    settled,    \* history: body handed to formatBookResult
    received,   \* history: `session` of the last check-endpoint response
    apiKey,     \* process.env.CALIL_APPLICATION_KEY
    server,     \* how far runServer has come
    wire,       \* the response a stage of its own is given (Absent: none)
    call,       \* the arguments of the search_books call (Absent: none)
    answer      \* what the search_books handler returned

locals == <<args, libraries, session, i>>

history == <<observed, lastStatus, raised, initial, settled, received>>

\* What no step of a resolution changes.
ambient == <<apiKey, server, wire>>

\* What only the tool handler changes.
tool == <<call, answer>>

vars == <<callers, pc, args, libraries, session, i, outcome, net, events,
          observed, lastStatus, raised, initial, settled, received, apiKey, server,
          wire, call, answer>>

Procs == {1, 2}

Pending == [how |-> "pending"]

NoError == Err("none", << >>)

Absent == [t |-> "absent"]

NoArgs == [isbn |-> << >>, pref |-> << >>, city |-> << >>]

InitFor(started) ==
    /\ callers = started
    /\ pc = [p \in Procs |-> "idle"]
    /\ args = [p \in Procs |-> NoArgs]
    /\ libraries = [p \in Procs |-> << >>]
    /\ session = [p \in Procs |-> Undefined]
    /\ i = [p \in Procs |-> 0]
    /\ outcome = [p \in Procs |-> Pending]
    /\ net = {}
    /\ events = [p \in Procs |-> << >>]
    /\ observed = [p \in Procs |-> Absent]
    /\ lastStatus = [p \in Procs |-> 0]
    /\ received = [p \in Procs |-> Absent]
    /\ call = [p \in Procs |-> Absent]
    /\ answer = [p \in Procs |-> Pending]
    /\ raised = [p \in Procs |-> NoError]
    /\ initial = [p \in Procs |-> Absent]
    /\ settled = [p \in Procs |-> Absent]
    /\ apiKey = Str(CALIL_API_KEY)
    /\ server = "connected"
    /\ wire = [p \in Procs |-> Absent]

Init == InitFor({1})

\* The request of resolution p that is in flight to the given endpoint.
InFlight(p, endpoint) == {m \in net : m.p = p /\ m.req.endpoint = endpoint}

Status(resp) == IF resp.net = "failure" THEN 0 ELSE resp.status

\* `continue` of a check-endpoint response, when its body could be read.
ContinueOf(resp) ==
    IF CheckBody(resp).how = "throw" THEN [t |-> "failure"]
    ELSE Field(CheckBody(resp).v, "continue")

\* `session` of a check-endpoint response, when its body could be read.
SessionOf(resp) ==
    IF CheckBody(resp).how = "throw" THEN Absent
    ELSE Field(CheckBody(resp).v, "session")

\* How the history names a continuation round's answer: no readable body,
\* a body with continue = 0, or a body with any other continue.
PollEvent(resp) ==
    IF ContinueOf(resp) = [t |-> "failure"] THEN "poll!fail"
    ELSE IF ContinueOf(resp) = Num(0) THEN "poll!done"
    ELSE "poll!more"

\* How the history names the initiating check request's answer: no readable
\* body, continue = 0, continue = 1, or any other continue.
CheckEvent(resp) ==
    IF ContinueOf(resp) = [t |-> "failure"] THEN "check!fail"
    ELSE IF ContinueOf(resp) = Num(0) THEN "check!done"
    ELSE IF ContinueOf(resp) = Num(1) THEN "check!more"
    ELSE "check!other"

\* searchBookInCity settles: with completion c, after error e was thrown
\* (NoError: none), having done `did`.
Finish(p, c, e, did) ==
    /\ pc' = [pc EXCEPT ![p] = "done"]
    /\ outcome' = [outcome EXCEPT ![p] = c]
    /\ raised' = [raised EXCEPT ![p] = e]
    /\ events' = [events EXCEPT ![p] = @ \o did \o <<"return">>]

\* lines 456-457: merge the settled body and return the result.
Merge(p, body, did) ==
    /\ settled' = [settled EXCEPT ![p] = body]
    /\ Finish(p, Return(formatBookResult(body, libraries[p], args[p].isbn)),
              IF FormatTry(body, libraries[p], args[p].isbn).how = "throw"
              THEN FormatTry(body, libraries[p], args[p].isbn).e ELSE NoError,
              did \o <<"merge">>)

(***************************************************************************)
(* Actions: one per stretch of code between two awaits.                   *)
(***************************************************************************)
\* Mutant: the check request is sent together with the directory request.
searchBookInCityFanOut(p, isbn, pref, city) ==
    /\ server = "connected"
    /\ p \in callers
    /\ pc[p] = "idle"
    /\ args' = [args EXCEPT ![p] = [isbn |-> isbn, pref |-> pref, city |-> city]]
    /\ net' = net \cup {[p |-> p, req |-> getLibrariesRequest(pref, city)],
                        [p |-> p, req |-> checkBooksRequest(isbn, << >>)]}
    /\ pc' = [pc EXCEPT ![p] = "getLibraries"]
    /\ events' = [events EXCEPT ![p] = @ \o <<"library?">>]
    /\ UNCHANGED <<callers, libraries, session, i, outcome, history, ambient>>

\* Mutant: an empty ISBN is rejected before any request.
searchBookInCityValidating(p, isbn, pref, city) ==
    /\ server = "connected"
    /\ p \in callers
    /\ pc[p] = "idle"
    /\ args' = [args EXCEPT ![p] = [isbn |-> isbn, pref |-> pref, city |-> city]]
    /\ IF isbn = << >>
       THEN /\ Finish(p, Throw(Err("ValidationError", <<"isbn is required">>)),
                      NoError, << >>)
            /\ UNCHANGED <<callers, libraries, session, i, net, observed,
                           lastStatus, initial, settled, received, ambient>>
       ELSE /\ net' = net \cup {[p |-> p, req |-> getLibrariesRequest(pref, city)]}
            /\ pc' = [pc EXCEPT ![p] = "getLibraries"]
            /\ events' = [events EXCEPT ![p] = @ \o <<"library?">>]
            /\ UNCHANGED <<callers, libraries, session, i, outcome, history, ambient>>

\* searchBookInCity is called: lines 441-444 and getLibraries up to its fetch.
searchBookInCity(p, isbn, pref, city) ==
    /\ server = "connected"
    /\ p \in callers
    /\ pc[p] = "idle"
    /\ args' = [args EXCEPT ![p] = [isbn |-> isbn, pref |-> pref, city |-> city]]
    /\ net' = net \cup {[p |-> p, req |-> getLibrariesRequest(pref, city)]}
    /\ pc' = [pc EXCEPT ![p] = "getLibraries"]
    /\ events' = [events EXCEPT ![p] = @ \o <<"library?">>]
    /\ UNCHANGED <<callers, libraries, session, i, outcome, history, ambient>>

\* The directory request is answered: the rest of getLibraries, then lines
\* 446-454 and checkBooks up to its fetch.
LibraryResponse(p, resp) ==
    /\ pc[p] = "getLibraries"
    /\ InFlight(p, "library") # {}
    /\ lastStatus' = [lastStatus EXCEPT ![p] = Status(resp)]
    /\ LET fetched == getLibraries(resp)
           ids == SystemIds(fetched.v)
       IN  CASE fetched.how = "throw" ->
                  /\ Finish(p, SearchCatch(fetched.e), fetched.e, <<"library!">>)
                  /\ net' = net \ InFlight(p, "library")
                  /\ UNCHANGED libraries
             [] fetched.how = "return" /\ NoLibraries(fetched.v) ->
                  /\ Finish(p, Return(NoLibrariesFound(args[p].pref, args[p].city)),
                            NoError, <<"library!">>)
                  /\ net' = net \ InFlight(p, "library")
                  /\ libraries' = [libraries EXCEPT ![p] = fetched.v]
             [] fetched.how = "return" /\ ~NoLibraries(fetched.v)
                  /\ ids.how = "throw" ->
                  /\ Finish(p, SearchCatch(ids.e), ids.e, <<"library!">>)
                  /\ net' = net \ InFlight(p, "library")
                  /\ libraries' = [libraries EXCEPT ![p] = fetched.v]
             [] OTHER ->
                  /\ libraries' = [libraries EXCEPT ![p] = fetched.v]
                  /\ net' = (net \ InFlight(p, "library"))
                            \cup {[p |-> p,
                                   req |-> checkBooksRequest(args[p].isbn, ids.v)]}
                  /\ pc' = [pc EXCEPT ![p] = "checkBooks"]
                  /\ events' = [events EXCEPT ![p] = @ \o <<"library!", "check?">>]
                  /\ UNCHANGED <<outcome, raised>>
    /\ UNCHANGED <<callers, args, session, i, observed, initial, settled, received,
                   ambient, tool>>

\* Mutant: the first round is fetched without waiting.
RoundStartLaterOnly(round) == IF round = 0 THEN << >> ELSE <<"wait">>

\* line 402: every round of the loop, the first included, begins with the
\* wait.
RoundStart(round) == <<"wait">>

\* The initiating check request is answered: the rest of checkBooks; then
\* either pollResults up to its first wait, or the merge and the return.
CheckResponse(p, resp) ==
    /\ pc[p] = "checkBooks"
    /\ InFlight(p, "check") # {}
    /\ net' = net \ InFlight(p, "check")
    /\ lastStatus' = [lastStatus EXCEPT ![p] = Status(resp)]
    /\ observed' = [observed EXCEPT ![p] = ContinueOf(resp)]
    /\ initial' = [initial EXCEPT ![p] =
                      IF CheckBody(resp).how = "return" THEN CheckBody(resp).v
                      ELSE Absent]
    /\ received' = [received EXCEPT ![p] = SessionOf(resp)]
    /\ LET c == checkBooks(resp)
       IN  CASE c.how = "throw" ->
                  /\ Finish(p, SearchCatch(c.e), c.e, <<CheckEvent(resp)>>)
                  /\ UNCHANGED <<session, i, settled>>
             [] c.how = "poll" /\ LoopContinues(0) ->
                  /\ session' = [session EXCEPT ![p] = c.session]
                  /\ i' = [i EXCEPT ![p] = 0]
                  /\ pc' = [pc EXCEPT ![p] = "pollWait"]
                  /\ events' = [events EXCEPT ![p] =
                                   @ \o <<CheckEvent(resp)>> \o RoundStart(0)]
                  /\ UNCHANGED <<outcome, raised, settled>>
             [] c.how = "poll" /\ ~LoopContinues(0) ->
                  /\ session' = [session EXCEPT ![p] = c.session]
                  /\ Finish(p, SearchCatch(PollingTimedOut), PollingTimedOut,
                            <<CheckEvent(resp)>>)
                  /\ UNCHANGED <<i, settled>>
             [] OTHER ->
                  /\ Merge(p, c.v, <<CheckEvent(resp)>>)
                  /\ UNCHANGED <<session, i>>
    /\ UNCHANGED <<callers, args, libraries, ambient, tool>>

\* Mutant: the session token is kept in a field of the service, where the
\* other resolution's session overwrites it.
TimerFiresSharedSession(p) ==
    /\ pc[p] = "pollWait"
    /\ net' = net \cup {[p |-> p,
                          req |-> pollResultsRequest(
                             IF \E q \in Procs \ {p} : session[q] # Undefined
                             THEN session[CHOOSE q \in Procs \ {p} :
                                             session[q] # Undefined]
                             ELSE session[p])]}
    /\ pc' = [pc EXCEPT ![p] = "pollResults"]
    /\ events' = [events EXCEPT ![p] = @ \o <<"poll?">>]
    /\ UNCHANGED <<callers, locals, outcome, history, ambient, tool>>

\* Mutant: the promise of the wait is never resolved.
TimerFiresNever(p) == FALSE

\* The inter-round timer fires (line 402): pollResults up to its fetch.
TimerFires(p) ==
    /\ pc[p] = "pollWait"
    /\ net' = net \cup {[p |-> p, req |-> pollResultsRequest(session[p])]}
    /\ pc' = [pc EXCEPT ![p] = "pollResults"]
    /\ events' = [events EXCEPT ![p] = @ \o <<"poll?">>]
    /\ UNCHANGED <<callers, locals, outcome, history, ambient, tool>>

\* Mutant: each round goes on with the session of the response before it.
RoundSessionFollowing(token, result) ==
    IF Field(result, "session") # Undefined THEN Field(result, "session") ELSE token

\* lines 398-406: the token is pollResults' parameter `session`, the same in
\* every round whatever `result` holds.
RoundSession(token, result) == token

\* Mutant: the poller hands back the payload of the initiating response.
ReturnedResultInitial(p, result) == initial[p]

\* lines 419-421: `return result`, the body decoded in this round.
ReturnedResult(p, result) == result

\* A continuation request is answered: the rest of the round; then the next
\* wait, the timeout, or the merge and the return.
PollResponse(p, resp) ==
    /\ pc[p] = "pollResults"
    /\ InFlight(p, "check") # {}
    /\ net' = net \ InFlight(p, "check")
    /\ lastStatus' = [lastStatus EXCEPT ![p] = Status(resp)]
    /\ observed' = [observed EXCEPT ![p] = ContinueOf(resp)]
    /\ received' = [received EXCEPT ![p] = SessionOf(resp)]
    /\ LET c == pollResults(resp, i[p])
       IN  /\ i' = [i EXCEPT ![p] = IF c.how = "again" \/ c = Throw(PollingTimedOut)
                                    THEN @ + 1 ELSE @]
           /\ session' = [session EXCEPT ![p] =
                             IF c.how = "again"
                             THEN RoundSession(@, CheckBody(resp).v) ELSE @]
           /\ CASE c.how = "throw" ->
                    /\ Finish(p, SearchCatch(c.e), c.e, <<PollEvent(resp)>>)
                    /\ UNCHANGED settled
               [] c.how = "again" ->
                    /\ pc' = [pc EXCEPT ![p] = "pollWait"]
                    /\ events' = [events EXCEPT ![p] =
                                     @ \o <<PollEvent(resp)>> \o RoundStart(i[p] + 1)]
                    /\ UNCHANGED <<outcome, raised, settled>>
               [] OTHER ->
                    /\ Merge(p, ReturnedResult(p, c.v), <<PollEvent(resp)>>)
    /\ UNCHANGED <<callers, args, libraries, initial, ambient, tool>>

Next ==
    \/ \E p \in Procs, isbn \in Isbns, pref \in Prefectures, city \in Cities :
          searchBookInCity(p, isbn, pref, city) /\ UNCHANGED tool
    \/ \E p \in Procs, resp \in Responses(DirectoryBodies) : LibraryResponse(p, resp)
    \/ \E p \in Procs, resp \in Responses(CheckBodies) : CheckResponse(p, resp)
    \/ \E p \in Procs : TimerFires(p)
    \/ \E p \in Procs, resp \in Responses(CheckBodies) : PollResponse(p, resp)

Spec == Init /\ [][Next]_vars

(***************************************************************************)
(* Two resolutions on one service instance: two tool calls whose handlers *)
(* are both in searchBookInCity, their steps interleaved at the awaits.   *)
(* The upstream answers from smaller sets than above.                     *)
(***************************************************************************)
ConcDirectory ==
    {HttpResponse(200, <<LexJson(Arr(<<Library("Chiba_Chiba", "chuo")>>))>>),
     HttpResponse(500, <<LexJunk>>)}

ConcBooks ==
    Obj(<<Prop(<<"4299062647">>, Obj(<<Prop(<<"Chiba_Chiba">>,
          Obj(<<P("status", Str(<<"OK">>)),
                P("libkey", Obj(<<Prop(<<"chuo">>, Str(<<"kashidashi-ka">>))>>))>>))>>))>>)

ConcCheck ==
    {HttpResponse(200, <<LexJson(BookResponse(s, c, ConcBooks))>>) :
        s \in Sessions, c \in {Num(0), Num(1)}}
    \cup {HttpResponse(500, <<LexJunk>>)}

ConcInit == InitFor({1, 2})

\* One step of resolution q.
ConcStep(q) ==
    \/ \E isbn \in Isbns, pref \in Prefectures, city \in Cities :
          searchBookInCity(q, isbn, pref, city) /\ UNCHANGED tool
    \/ \E resp \in ConcDirectory : LibraryResponse(q, resp)
    \/ \E resp \in ConcCheck : CheckResponse(q, resp)
    \/ TimerFires(q)
    \/ \E resp \in ConcCheck : PollResponse(q, resp)

ConcNext == \E q \in Procs : ConcStep(q)

ConcSpec == ConcInit /\ [][ConcNext]_vars

(***************************************************************************)
(* Fairness.  Every fetch settles and every timer fires: the event loop   *)
(* runs a continuation that is ready.  Nothing makes a caller start a     *)
(* resolution.                                                            *)
(***************************************************************************)
\* What a started resolution does next: one of its requests is answered (or
\* fails), or its wait runs out.
Proceed(p) ==
    \/ \E resp \in ConcDirectory : LibraryResponse(p, resp)
    \/ \E resp \in ConcCheck : CheckResponse(p, resp)
    \/ TimerFires(p)
    \/ \E resp \in ConcCheck : PollResponse(p, resp)

FairSpec == ConcSpec /\ \A p \in Procs : WF_vars(Proceed(p))

(***************************************************************************)
(* The search_books tool.  The handler checks the arguments, finds the    *)
(* ISBN, calls searchBookInCity and, once that has settled, answers with  *)
(* the result as JSON text.                                               *)
(***************************************************************************)
\* The text of a query holds an ISBN as one piece.
IsbnPieces == {"4299062647", "978-4-299-06264-7"}

\* match.replace(/[-\s]/g, '')
Normalized(piece) == IF piece = "978-4-299-06264-7" THEN "9784299062647" ELSE piece

\* query.match(isbnRegex): the ISBNs in the text, in order.
RECURSIVE Matches(_)
Matches(text) ==
    IF text = << >> THEN << >>
    ELSE (IF Head(text) \in IsbnPieces THEN <<Head(text)>> ELSE << >>)
         \o Matches(Tail(text))

\* server.ts extractIsbnFromQuery; query.match throws when query is no string.
extractIsbnFromQuery(query) ==
    IF query.t # "string"
    THEN Throw(Err("TypeError", <<"Cannot read properties of undefined (reading 'match')">>))
    ELSE Return(Arr([n \in 1..Len(Matches(query.s)) |->
                        Str(<<Normalized(Matches(query.s)[n])>>)]))

\* { content: [{ type: "text", text: JSON.stringify(value) }] }
ToolText(value) == [content |-> <<[type |-> "text", text |-> <<LexJson(value)>>]>>]

\* Mutant: the area is not checked.
AreaRejectedNever(prefecture, city) == FALSE

\* server.ts line 152
AreaRejected(prefecture, city) ==
    \/ ~Truthy(prefecture) \/ prefecture.t # "string"
    \/ ~Truthy(city) \/ city.t # "string"

\* server.ts line 164: isbn ? isbn : extractIsbnFromQuery(query)
TargetIsbn(isbn, query) ==
    IF Truthy(isbn) THEN Return(isbn) ELSE extractIsbnFromQuery(query)

\* server.ts line 166
IsbnRejected(targetIsbn) ==
    ~Truthy(targetIsbn) \/ (IsArray(targetIsbn) /\ Len(targetIsbn.el) = 0)

\* server.ts line 178
FinalIsbn(targetIsbn) ==
    IF IsArray(targetIsbn) THEN targetIsbn.el[1] ELSE targetIsbn

ToolArguments ==
    [query : {Undefined, Str(<<"kokoro">>), Str(<<"kokoro ", "978-4-299-06264-7">>)},
     prefecture : {Undefined, Str(<< >>), Num(13), Str(<<"Chiba-ken">>)},
     city : {Undefined, Num(1), Str(<<"Chiba-shi">>)},
     isbn : {Undefined, Str(<< >>), Str(<<"4299062647">>)}]

\* server.ts lines 146-182: the handler up to its await.
search_books(p, arguments) ==
    /\ server = "connected"
    /\ p \in callers
    /\ pc[p] = "idle"
    /\ call[p] = Absent
    /\ call' = [call EXCEPT ![p] = arguments]
    /\ LET targetIsbn == TargetIsbn(arguments.isbn, arguments.query)
           unstarted == <<callers, pc, locals, outcome, net, events, history, ambient>>
       IN  IF AreaRejected(arguments.prefecture, arguments.city)
           THEN /\ answer' = [answer EXCEPT ![p] = ToolText(
                      [error |-> <<"Prefecture and city parameters are required">>])]
                /\ UNCHANGED unstarted
           ELSE IF targetIsbn.how = "throw"
           THEN /\ answer' = [answer EXCEPT ![p] = ToolText(
                      [error |-> <<"Failed to search for books: ">>
                                 \o targetIsbn.e.message])]
                /\ UNCHANGED unstarted
           ELSE IF IsbnRejected(targetIsbn.v)
           THEN /\ answer' = [answer EXCEPT ![p] = ToolText(
                      [error |-> <<"Could not determine ISBN from query">>])]
                /\ UNCHANGED unstarted
           ELSE /\ searchBookInCity(p, FinalIsbn(targetIsbn.v).s,
                                    arguments.prefecture.s, arguments.city.s)
                /\ UNCHANGED answer

\* server.ts lines 182-203: searchBookInCity has settled; the handler answers.
search_booksReturns(p) ==
    /\ call[p] # Absent
    /\ answer[p] = Pending
    /\ pc[p] = "done"
    /\ answer' = [answer EXCEPT ![p] =
                    IF outcome[p].how = "return" THEN ToolText(outcome[p].v)
                    ELSE ToolText([error |-> <<"Failed to search for books: ">>
                                             \o outcome[p].e.message])]
    /\ UNCHANGED <<callers, pc, locals, outcome, net, events, history, ambient, call>>

ToolNext ==
    \E p \in Procs :
        \/ \E arguments \in ToolArguments : search_books(p, arguments)
        \/ Proceed(p)
        \/ search_booksReturns(p)

ToolSpec == Init /\ [][ToolNext]_vars

(***************************************************************************)
(* Cancellation.  The client may cancel a tool call while its handler is  *)
(* in pollResults.  Neither the handler (server.ts line 145 takes the     *)
(* request only) nor pollResults (its parameters are session and          *)
(* maxRetries) takes an abort signal, so the cancellation changes nothing *)
(* a resolution holds; the history notes when it came.                    *)
(***************************************************************************)
Cancel(p) ==
    /\ pc[p] \in {"pollWait", "pollResults"}
    /\ ~ \E j \in 1..Len(events[p]) : events[p][j] = "cancel"
    /\ events' = [events EXCEPT ![p] = @ \o <<"cancel">>]
    /\ UNCHANGED <<callers, pc, locals, outcome, net, history, ambient, tool>>

CancelNext ==
    \/ ConcNext
    \/ \E p \in Procs : Cancel(p)

CancelSpec == Init /\ [][CancelNext]_vars

(***************************************************************************)
(* Startup.  runServer sets the handlers up, which constructs the         *)
(* CalilApiService, and then connects the transport; only a connected     *)
(* server is given tool calls.  An error on the way is logged and the     *)
(* process exits.                                                         *)
(***************************************************************************)
\* What process.env.CALIL_APPLICATION_KEY may hold.
ApiKeys == {Undefined, Str(<< >>), Str(CALIL_API_KEY)}

\* Mutant: the constructor takes any key.
KeyMissingNever(key) == FALSE

\* line 302: !CALIL_API_KEY
KeyMissing(key) == ~Truthy(key)

StartupInit ==
    /\ callers = {1}
    /\ pc = [p \in Procs |-> "idle"]
    /\ args = [p \in Procs |-> NoArgs]
    /\ libraries = [p \in Procs |-> << >>]
    /\ session = [p \in Procs |-> Undefined]
    /\ i = [p \in Procs |-> 0]
    /\ outcome = [p \in Procs |-> Pending]
    /\ net = {}
    /\ events = [p \in Procs |-> << >>]
    /\ observed = [p \in Procs |-> Absent]
    /\ lastStatus = [p \in Procs |-> 0]
    /\ received = [p \in Procs |-> Absent]
    /\ call = [p \in Procs |-> Absent]
    /\ answer = [p \in Procs |-> Pending]
    /\ raised = [p \in Procs |-> NoError]
    /\ initial = [p \in Procs |-> Absent]
    /\ settled = [p \in Procs |-> Absent]
    /\ apiKey \in ApiKeys
    /\ server = "starting"
    /\ wire = [p \in Procs |-> Absent]

\* server.ts lines 336-349: up to and including setupCallToolHandler, whose
\* `new CalilApiService()` throws without a key; runServer's catch then logs
\* the error and calls process.exit(1).
setupCallToolHandler ==
    /\ server = "starting"
    /\ server' = IF KeyMissing(apiKey) THEN "exited" ELSE "handlers"
    /\ UNCHANGED <<callers, pc, locals, outcome, net, events, history, apiKey, wire,
                   tool>>

\* server.ts lines 352-353: await server.connect(transport)
connect ==
    /\ server = "handlers"
    /\ server' = "connected"
    /\ UNCHANGED <<callers, pc, locals, outcome, net, events, history, apiKey, wire,
                   tool>>

StartupNext ==
    \/ setupCallToolHandler
    \/ connect
    \/ ConcNext

StartupSpec == StartupInit /\ [][StartupNext]_vars

(***************************************************************************)
(* The merger on its own: formatBookResult applied to a settled payload,  *)
(* a library list and an ISBN, each drawn from a set wider than what the  *)
(* resolutions above meet.  The inputs sit where searchBookInCity holds   *)
(* them at line 457: `result` in settled, `libraries`, and args.isbn.     *)
(***************************************************************************)
\* The longest library list handed to the merger.
MaxMergeLibraries == 3

MergeRecords ==
    {Library("Chiba_Chiba", "chuo"), Library("Chiba_Chiba", "nishi"),
     Library("Univ_Chiba", "chuo")}

MergeLibraries == SeqsUpTo(MergeRecords, MaxMergeLibraries)

\* The requested ISBN: the one the payloads are keyed by, and another.
MergeIsbns == {<<"4299062647">>, <<"4000000000">>}

Available == Str(<<"kashidashi-ka">>)

\* Per-library values of libkey: available, no holdings, the empty string.
LendingValues == {Available, Str(NoHoldings), Str(<< >>)}

\* systemData.libkey: missing, empty, one key, two keys in either order.
LibKeyMaps ==
    {Undefined, Obj(<< >>)}
    \cup {Obj(<<Prop(<<"chuo">>, v)>>) : v \in LendingValues}
    \cup {Obj(<<Prop(<<"chuo">>, v), Prop(<<"nishi">>, Available)>>) :
             v \in LendingValues}
    \cup {Obj(<<Prop(<<"nishi">>, Available), Prop(<<"chuo">>, Available)>>)}

\* { status, libkey, reserveurl }, a property left out when undefined.
SystemData(status, libkey, reserveurl) ==
    Obj(<<P("status", Str(<<status>>))>>
        \o (IF libkey = Undefined THEN << >> ELSE <<P("libkey", libkey)>>)
        \o (IF reserveurl = Undefined THEN << >> ELSE <<P("reserveurl", reserveurl)>>))

\* What the payload may hold for the system Chiba_Chiba; null is outside
\* the declared type of BookResponse, but JSON can carry it.
SystemDatas ==
    {SystemData(status, libkey, reserveurl) :
        status \in {"OK", "Cache"}, libkey \in LibKeyMaps,
        reserveurl \in {Undefined, Str(ReserveTemplate), Str(ReserveTemplateTwice)}}
    \cup {SystemData(status, Obj(<<Prop(<<"chuo">>, Available)>>),
                     Str(ReserveTemplate)) : status \in {"Running", "Error"}}
    \cup {Null}

\* What the payload may hold for the system Univ_Chiba.
OtherSystemDatas ==
    {SystemData("OK", Obj(<<Prop(<<"chuo">>, Available)>>), Undefined),
     SystemData("Running", Obj(<<Prop(<<"chuo">>, Available)>>), Undefined),
     SystemData("Cache", Obj(<<Prop(<<"chuo">>, Str(NoHoldings))>>),
                Str(ReserveTemplate)),
     Null}

\* books[isbn]: one system, or two systems in either order.
MergeBookDatas ==
    {Obj(<<Prop(<<"Chiba_Chiba">>, a)>>) : a \in SystemDatas}
    \cup {Obj(<<Prop(<<"Chiba_Chiba">>, a), Prop(<<"Univ_Chiba">>, b)>>) :
             a \in SystemDatas, b \in OtherSystemDatas}
    \cup {Obj(<<Prop(<<"Univ_Chiba">>, b), Prop(<<"Chiba_Chiba">>, a)>>) :
             a \in SystemDatas, b \in OtherSystemDatas}

\* Settled payloads: with data for 4299062647, without a books map, with an
\* empty books map, and with null for the ISBN.
MergeBodies ==
    {BookResponse(<<"S1">>, Num(0), Obj(<<Prop(<<"4299062647">>, d)>>)) :
        d \in MergeBookDatas}
    \cup {BookResponse(<<"S1">>, Num(0), Undefined),
          BookResponse(<<"S1">>, Num(0), Obj(<< >>)),
          BookResponse(<<"S1">>, Num(0), Obj(<<Prop(<<"4299062647">>, Null)>>))}

MergeInit ==
    /\ callers = {1}
    /\ pc = [p \in Procs |-> IF p = 1 THEN "formatBookResult" ELSE "idle"]
    /\ \E isbn \in MergeIsbns, libs \in MergeLibraries, body \in MergeBodies :
          /\ args = [p \in Procs |-> IF p = 1
                                     THEN [isbn |-> isbn, pref |-> << >>, city |-> << >>]
                                     ELSE NoArgs]
          /\ libraries = [p \in Procs |-> IF p = 1 THEN libs ELSE << >>]
          /\ settled = [p \in Procs |-> IF p = 1 THEN body ELSE Absent]
    /\ session = [p \in Procs |-> Undefined]
    /\ i = [p \in Procs |-> 0]
    /\ outcome = [p \in Procs |-> Pending]
    /\ net = {}
    /\ events = [p \in Procs |-> << >>]
    /\ observed = [p \in Procs |-> Absent]
    /\ lastStatus = [p \in Procs |-> 0]
    /\ received = [p \in Procs |-> Absent]
    /\ call = [p \in Procs |-> Absent]
    /\ answer = [p \in Procs |-> Pending]
    /\ raised = [p \in Procs |-> NoError]
    /\ initial = [p \in Procs |-> Absent]
    /\ apiKey = Str(CALIL_API_KEY)
    /\ server = "connected"
    /\ wire = [p \in Procs |-> Absent]

\* line 457: return this.formatBookResult(result, libraries, isbn)
formatBookResultCall(p) ==
    /\ pc[p] = "formatBookResult"
    /\ Merge(p, settled[p], << >>)
    /\ UNCHANGED <<callers, args, libraries, session, i, net, observed,
                   lastStatus, initial, received, ambient, tool>>

MergeNext == \E p \in Procs : formatBookResultCall(p)

MergeSpec == MergeInit /\ [][MergeNext]_vars

(***************************************************************************)
(* The stages on their own: parseJsonpResponse, getLibraries, checkBooks  *)
(* and one round of pollResults, each given any response.  The text of a  *)
(* response is white space, call prefixes, a body, white space,           *)
(* terminators, white space, each of them optional.                       *)
(***************************************************************************)
Stages == {"parseJsonpResponse", "getLibraries", "checkBooks", "pollResults"}

\* A system of the directory in its keyed shape: { libkey: { <key>: {...} } }.
KeyedSystem(libkeys) ==
    Obj(<<P("libkey", Obj([n \in 1..Len(libkeys) |-> P(libkeys[n], Obj(<< >>))]))>>)

\* The directory as an object keyed by system.
KeyedDirectory ==
    Obj(<<Prop(<<"Chiba_Chiba">>, KeyedSystem(<<"chuo", "nishi">>)),
          Prop(<<"Univ_Chiba">>, KeyedSystem(<<"chuo">>))>>)

WireBodies ==
    {Arr(<< >>), Arr(<<Library("Chiba_Chiba", "chuo"), Library("Univ_Chiba", "chuo")>>),
     KeyedDirectory, Obj(<< >>), Null,
     BookResponse(<<"S1">>, Num(0), ConcBooks),
     BookResponse(<<"S1">>, Num(1), ConcBooks)}

Spaces == {<< >>, <<LexSpace>>}

Openers == {<< >>, <<LexCallback>>, <<LexOtherCall>>, <<LexCallback, LexCallback>>}

Closers == {<< >>, <<LexEnd>>, <<LexEnd, LexEnd>>}

Middles == {<<LexJson(b)>> : b \in WireBodies} \cup {<<LexJunk>>, << >>}

WireTexts ==
    {before \o open \o left \o middle \o right \o close \o after :
        before \in Spaces, open \in Openers, left \in Spaces, middle \in Middles,
        right \in Spaces, close \in Closers, after \in Spaces}

WireResponses ==
    {HttpResponse(200, text) : text \in WireTexts}
    \cup {HttpResponse(500, <<LexJunk>>), NetworkFailure}

WireInit ==
    /\ callers = {1}
    /\ \E stage \in Stages, resp \in WireResponses, round \in {0, maxRetries - 1} :
          /\ stage = "parseJsonpResponse" => resp.net = "response"
          /\ stage # "pollResults" => round = 0
          /\ pc = [p \in Procs |-> IF p = 1 THEN stage ELSE "idle"]
          /\ wire = [p \in Procs |-> IF p = 1 THEN resp ELSE Absent]
          /\ i = [p \in Procs |-> IF p = 1 THEN round ELSE 0]
    /\ args = [p \in Procs |-> NoArgs]
    /\ libraries = [p \in Procs |-> << >>]
    /\ session = [p \in Procs |-> Undefined]
    /\ outcome = [p \in Procs |-> Pending]
    /\ net = {}
    /\ events = [p \in Procs |-> << >>]
    /\ observed = [p \in Procs |-> Absent]
    /\ lastStatus = [p \in Procs |-> 0]
    /\ received = [p \in Procs |-> Absent]
    /\ call = [p \in Procs |-> Absent]
    /\ answer = [p \in Procs |-> Pending]
    /\ raised = [p \in Procs |-> NoError]
    /\ initial = [p \in Procs |-> Absent]
    /\ settled = [p \in Procs |-> Absent]
    /\ apiKey = Str(CALIL_API_KEY)
    /\ server = "connected"

\* The stage of p settles with completion c.
Settle(p, c) ==
    /\ events' = [events EXCEPT ![p] = <<pc[p]>>]
    /\ pc' = [pc EXCEPT ![p] = "done"]
    /\ outcome' = [outcome EXCEPT ![p] = c]
    /\ UNCHANGED <<callers, locals, net, history, ambient, tool>>

\* lines 312-318
parseJsonpResponseCall(p) ==
    /\ pc[p] = "parseJsonpResponse"
    /\ Settle(p, parseJsonpResponse(wire[p].text))

\* lines 334-353
getLibrariesSettles(p) ==
    /\ pc[p] = "getLibraries"
    /\ Settle(p, getLibraries(wire[p]))

\* lines 370-391
checkBooksSettles(p) ==
    /\ pc[p] = "checkBooks"
    /\ Settle(p, checkBooks(wire[p]))

\* lines 400-426, one round
pollResultsSettles(p) ==
    /\ pc[p] = "pollResults"
    /\ Settle(p, pollResults(wire[p], i[p]))

WireNext ==
    \E p \in Procs :
        \/ parseJsonpResponseCall(p)
        \/ getLibrariesSettles(p)
        \/ checkBooksSettles(p)
        \/ pollResultsSettles(p)

WireSpec == WireInit /\ [][WireNext]_vars

(***************************************************************************)
(* Properties.                                                            *)
(***************************************************************************)
CountOf(seq, x) == Cardinality({j \in 1..Len(seq) : seq[j] = x})

Occurs(seq, x) == \E j \in 1..Len(seq) : seq[j] = x

\* The number of continuation requests resolution p has issued.
Polls(p) == CountOf(events[p], "poll?")

CheckAnswers == {"check!fail", "check!done", "check!more", "check!other"}

PollAnswers == {"poll!fail", "poll!done", "poll!more"}

\* C1: once a resolution has observed a check-endpoint response with
\* continue = 0, it starts no further wait and issues no further continuation
\* request: nothing of the kind follows that response in its history, and
\* the resolution has ended with no request in flight.
C1_NoPollAfterComplete ==
    \A p \in Procs :
       /\ \A j \in 1..Len(events[p]) : \A k \in (j + 1)..Len(events[p]) :
             events[p][j] \in {"check!done", "poll!done"}
                => events[p][k] \notin {"wait", "poll?"}
       /\ observed[p] = Num(0) => pc[p] = "done" /\ InFlight(p, "check") = {}

\* C1's case: a continuation round was answered with continue = 0.
C1_Witness ==
    \E p \in Procs :
       observed[p] = Num(0) /\ Polls(p) >= 2 /\ Occurs(events[p], "poll!done")

\* The object searchBookInCity resolves to when the round budget of 5 is spent.
TimeoutOutcome == Return([error |-> <<"Polling timed out after ", "5", " attempts">>])

\* C2: a resolution issues at most maxRetries (5) continuation requests; it
\* ends in the timeout failure only after exactly 5 rounds, each answered by
\* an incomplete response; and 5 incomplete rounds end it in the timeout
\* failure, whose message reports 5 attempts.
C2_RoundBudget ==
    \A p \in Procs :
       /\ Polls(p) <= 5
       /\ outcome[p] = TimeoutOutcome
             => Polls(p) = 5 /\ CountOf(events[p], "poll!more") = 5
       /\ CountOf(events[p], "poll!more") = 5
             => pc[p] = "done" /\ outcome[p] = TimeoutOutcome

\* C2's case: continue stayed 1 through five rounds and the run timed out.
C2_Witness ==
    \E p \in Procs :
       /\ CountOf(events[p], "poll!more") = 5
       /\ observed[p] = Num(1)
       /\ outcome[p] = TimeoutOutcome

\* C3: when the initiating check response does not ask for more work
\* (continue is not 1), the resolution settles at once with that response's
\* body and never waits or polls; it waits or polls only when the initiating
\* response carried continue = 1.
C3_SettleImmediately ==
    \A p \in Procs :
       /\ initial[p] # Absent /\ Field(initial[p], "continue") # Num(1)
             => /\ pc[p] = "done"
                /\ settled[p] = initial[p]
                /\ Polls(p) = 0
                /\ ~Occurs(events[p], "wait")
       /\ Occurs(events[p], "wait") \/ pc[p] \in {"pollWait", "pollResults"}
             => initial[p] # Absent /\ Field(initial[p], "continue") = Num(1)

\* C3's case: the initiating response carried continue = 0 and its body was
\* merged into a report with an entry.
C3_Witness ==
    \E p \in Procs :
       /\ initial[p] # Absent
       /\ Field(initial[p], "continue") = Num(0)
       /\ settled[p] = initial[p]
       /\ outcome[p].how = "return"
       /\ "libraries" \in DOMAIN outcome[p].v
       /\ Len(outcome[p].v.libraries) = 1

\* The two shapes of the object searchBookInCity resolves to.
IsReport(v) == DOMAIN v = {"isbn", "libraries"}

IsErrorObject(v) == DOMAIN v = {"error"}

\* s.includes(sub)
Contains(s, sub) ==
    \E j \in 0..(Len(s) - Len(sub)) : SubSeq(s, j + 1, j + Len(sub)) = sub

\* The last response resolution p observed was a non-success HTTP response.
UpstreamFailed(p) == lastStatus[p] # 0 /\ lastStatus[p] \notin 200..299

\* Resolution p ended right after a round that was answered incomplete.
Exhausted(p) ==
    /\ pc[p] = "done"
    /\ Len(events[p]) >= 2
    /\ events[p][Len(events[p]) - 1] = "poll!more"

\* The last check-endpoint response p observed is one the code treats as
\* settled: continue = 0, or the initiating response with a continue flag
\* other than 1.
TreatedAsSettled(p) ==
    \/ observed[p] = Num(0)
    \/ /\ Polls(p) = 0
       /\ observed[p] \notin {Absent, [t |-> "failure"], Num(1)}

\* C4 as stated: searchBookInCity returns a report only if the last
\* check-endpoint response it observed carried continue = 0; in every other
\* run the outcome is an error and not a report.
C4_AsStated ==
    \A p \in Procs :
       pc[p] = "done" =>
          /\ outcome[p].how = "return"
          /\ IsReport(outcome[p].v) => observed[p] = Num(0)
          /\ observed[p] # Num(0) => IsErrorObject(outcome[p].v)

\* C4 (amended): searchBookInCity returns a report only if the last
\* check-endpoint response it observed carried continue = 0 or was the
\* initiating response with a continue flag other than 1; in every other run
\* (budget exhausted, transport failure, a continuation round answered with a
\* flag other than 0) the outcome is an error object and not a report.
C4_ReportOnlyWhenSettled ==
    \A p \in Procs :
       pc[p] = "done" =>
          /\ outcome[p].how = "return"
          /\ IsReport(outcome[p].v) => TreatedAsSettled(p)
          /\ ~TreatedAsSettled(p) => IsErrorObject(outcome[p].v)

\* C4's case: a report with an entry, returned after a continuation round
\* was answered with continue = 0.
C4_Witness ==
    \E p \in Procs :
       /\ pc[p] = "done"
       /\ IsReport(outcome[p].v)
       /\ Len(outcome[p].v.libraries) = 1
       /\ observed[p] = Num(0)
       /\ Polls(p) >= 1

\* C5: a non-success HTTP response, at whatever stage, ends the resolution
\* at once with the failure "API call failed with status: <status>": nothing
\* happens between the response and the return, no request stays in flight,
\* and the result is that error object, not a report.
C5_UpstreamFailure ==
    \A p \in Procs :
       UpstreamFailed(p) =>
          /\ pc[p] = "done"
          /\ outcome[p] = Return([error |-> <<"API call failed with status: ",
                                              ToString(lastStatus[p])>>])
          /\ {m \in net : m.p = p} = {}
          /\ Len(events[p]) >= 2
          /\ events[p][Len(events[p])] = "return"
          /\ events[p][Len(events[p]) - 1] \in {"library!", "check!fail", "poll!fail"}

\* C5's case: a continuation round was answered with status 500.
C5_Witness ==
    \E p \in Procs : lastStatus[p] = 500 /\ Polls(p) >= 1 /\ pc[p] = "done"

\* C6 as stated: the outcome of an exhausted round budget differs from the
\* outcome of every upstream failure, and carries the session and the number
\* of rounds attempted.
C6_AsStated ==
    \A p \in Procs :
       Exhausted(p) =>
          /\ outcome[p].how = "return"
          /\ \A status \in {404, 500} :
                outcome[p].v # [error |-> ApiCallFailed(status).message]
          /\ Contains(outcome[p].v.error, <<ToString(Polls(p))>>)
          /\ \/ "session" \in DOMAIN outcome[p].v
             \/ Contains(outcome[p].v.error, ToStr(session[p]))

\* C6 (amended): the outcome of an exhausted round budget is the returned
\* object { error: "Polling timed out after <n> attempts" }, n the number of
\* rounds attempted; it carries nothing else (in particular not the session),
\* and the outcome of an upstream failure is an error object whose message
\* starts "API call failed with status: ", so a caller can tell the two apart
\* by the message.
C6_TimeoutTellable ==
    \A p \in Procs :
       /\ Exhausted(p) =>
             /\ outcome[p] = Return([error |-> <<"Polling timed out after ",
                                                 ToString(Polls(p)), " attempts">>])
             /\ ~Contains(outcome[p].v.error, ToStr(session[p]))
       /\ UpstreamFailed(p) =>
             /\ outcome[p].how = "return"
             /\ IsErrorObject(outcome[p].v)
             /\ outcome[p].v.error[1] = "API call failed with status: "
             /\ outcome[p].v.error[1] # "Polling timed out after "

\* C6's case: the budget was exhausted.
C6_Witness ==
    \E p \in Procs : Exhausted(p) /\ Polls(p) = 5 /\ session[p] = Str(<<"S2">>)

\* C7 as stated: an error raised by a downstream stage reaches the caller of
\* searchBookInCity as that error, not as an ordinary return value.
C7_AsStated ==
    \A p \in Procs :
       pc[p] = "done" /\ raised[p] # NoError => outcome[p] = Throw(raised[p])

\* C7 (amended): an error raised by a downstream stage (directory fetch,
\* decode, check, poll, merge) is caught and reaches the caller as the
\* ordinary return value { error: <the error's message> }; the message is
\* kept, the error's class is not, and the result is never a report.
C7_ErrorsReturnedAsObjects ==
    \A p \in Procs :
       pc[p] = "done" /\ raised[p] # NoError
          => outcome[p] = Return([error |-> raised[p].message])

\* C7's case: the decode of a continuation round's response failed.
C7_Witness ==
    \E p \in Procs :
       pc[p] = "done" /\ raised[p].name = "SyntaxError" /\ Polls(p) >= 1

\* The directory lookup of resolution p returned, with zero libraries.
ZeroLibraries(p) ==
    /\ Occurs(events[p], "library!")
    /\ raised[p] = NoError
    /\ Len(libraries[p]) = 0

\* C8: when the directory lookup yields zero libraries, the resolution never
\* issues a check-endpoint request, neither the initiating one nor a
\* continuation, and none is in flight.
C8_NoCheckWithoutLibraries ==
    \A p \in Procs :
       Len(libraries[p]) = 0 =>
          /\ ~Occurs(events[p], "check?")
          /\ ~Occurs(events[p], "poll?")
          /\ InFlight(p, "check") = {}
          /\ Occurs(events[p], "library!") => pc[p] = "done"

\* C8's case: the directory answered 200 with a payload of no libraries.
C8_Witness ==
    \E p \in Procs : ZeroLibraries(p) /\ lastStatus[p] = 200 /\ pc[p] = "done"

\* C9 as stated: with zero libraries the result is the successful empty
\* report, the requested isbn with no entries, and not an error.
C9_AsStated ==
    \A p \in Procs :
       ZeroLibraries(p) =>
          outcome[p] = Return([isbn |-> args[p].isbn, libraries |-> << >>])

\* C9 (amended): with zero libraries the result is the returned error object
\* { error: "No libraries found in <pref>, <city>" }: it is returned, not
\* thrown, and it is not a report with an empty entry list.
C9_NoLibrariesIsErrorObject ==
    \A p \in Procs :
       ZeroLibraries(p) =>
          outcome[p] = Return([error |-> <<"No libraries found in ">>
                                         \o args[p].pref \o <<", ">> \o args[p].city])

\* C9's case: the directory answered with the object keyed by system, which
\* getLibraries turns into the empty list.
C9_Witness ==
    \E p \in Procs :
       /\ ZeroLibraries(p)
       /\ pc[p] = "done"
       /\ args[p].isbn # << >>
       /\ IsErrorObject(outcome[p].v)

\* The history of a resolution is strictly sequential: each step is preceded
\* by the step the code orders before it.
Ordered(h) ==
    \A j \in 1..Len(h) :
       LET prev == IF j = 1 THEN "call" ELSE h[j - 1] IN
       CASE h[j] = "library?" -> prev = "call"
         [] h[j] = "library!" -> prev = "library?"
         [] h[j] = "check?" -> prev = "library!"
         [] h[j] \in CheckAnswers -> prev = "check?"
         [] h[j] = "wait" -> prev \in {"check!more", "poll!more"}
         [] h[j] = "poll?" -> prev = "wait"
         [] h[j] \in PollAnswers -> prev = "poll?"
         [] h[j] = "merge" -> prev \in (CheckAnswers \cup PollAnswers)
         [] h[j] = "return" -> prev \in ({"library!", "merge"} \cup CheckAnswers
                                           \cup PollAnswers)
         [] OTHER -> FALSE

\* C10: within one resolution the initiating check request is issued only
\* after the directory response was received and decoded into a non-empty
\* library list, the merge runs only after the poller has settled (directly
\* after the response whose body it merges), and the resolution never has
\* more than one request in flight.
C10_StrictlyOrdered ==
    \A p \in Procs :
       /\ Ordered(events[p])
       /\ Cardinality({m \in net : m.p = p}) <= 1
       /\ Occurs(events[p], "check?") => Len(libraries[p]) > 0
       /\ Occurs(events[p], "merge") =>
             /\ settled[p] # Absent
             /\ {m \in net : m.p = p} = {}
             /\ TreatedAsSettled(p)

\* C10's case: a resolution that went through directory, check, two
\* continuation rounds and the merge.
C10_Witness ==
    \E p \in Procs :
       Occurs(events[p], "merge") /\ Polls(p) = 2 /\ pc[p] = "done"

(***************************************************************************)
(* Properties of the merger.  An entry's name is the `formal` of the      *)
(* library record it was made from, which in the model spells the         *)
(* record's system ID and library key.                                    *)
(***************************************************************************)
\* The entries of the report resolution p returned (none: no report).
Entries(p) ==
    IF outcome[p].how = "return" /\ IsReport(outcome[p].v)
    THEN outcome[p].v.libraries ELSE << >>

\* books[isbn] of the payload handed to the merger.
BookDataOf(p) == Get(Field(settled[p], "books"), args[p].isbn)

SystemOf(entry) == <<entry.name.s[1]>>

KeyOf(entry) == <<entry.name.s[3]>>

\* The per-system status the payload reports for a system.
ReportedStatus(p, systemId) == Field(Get(BookDataOf(p), systemId), "status")

\* The library list of p holds a record of this system and library key.
HasRecord(p, systemId, libKey) ==
    \E j \in 1..Len(libraries[p]) :
       /\ Field(libraries[p][j], "systemid") = Str(systemId)
       /\ Field(libraries[p][j], "libkey") = Str(libKey)

\* The payload reports this library key under this system.
Reports(p, systemId, libKey) ==
    \E j \in 1..Len(Keys(Field(Get(BookDataOf(p), systemId), "libkey"))) :
       Keys(Field(Get(BookDataOf(p), systemId), "libkey"))[j] = libKey

\* C11: no entry of a report belongs to a library of a system whose
\* per-system status in the payload is anything other than OK or Cache.
C11_UsableSystemsOnly ==
    \A p \in Procs : \A j \in 1..Len(Entries(p)) :
       ReportedStatus(p, SystemOf(Entries(p)[j])) \in {Str(<<"OK">>), Str(<<"Cache">>)}

\* C11's case: a report with an entry, from a payload that also reports a
\* system in status Running with a library key the library list knows.
C11_Witness ==
    \E p \in Procs :
       /\ pc[p] = "done"
       /\ Len(Entries(p)) >= 1
       /\ ReportedStatus(p, <<"Univ_Chiba">>) = Str(<<"Running">>)
       /\ Reports(p, <<"Univ_Chiba">>, <<"chuo">>)
       /\ HasRecord(p, <<"Univ_Chiba">>, <<"chuo">>)

\* C12: no entry of a report has a reservation URL when its lending status
\* is the "no holdings" code, whether or not the system has a template.
C12_NoUrlWithoutHoldings ==
    \A p \in Procs : \A j \in 1..Len(Entries(p)) :
       Entries(p)[j].status = Str(NoHoldings) => Entries(p)[j].reserveUrl = Null

\* C12's case: a system with a reservation URL template, one of whose
\* libraries does not hold the title while another gets a reservation URL.
C12_Witness ==
    \E p \in Procs : \E j, k \in 1..Len(Entries(p)) :
       /\ Entries(p)[j].status = Str(NoHoldings)
       /\ SystemOf(Entries(p)[j]) = SystemOf(Entries(p)[k])
       /\ Field(Get(BookDataOf(p), SystemOf(Entries(p)[j])), "reserveurl")
             = Str(ReserveTemplate)
       /\ Entries(p)[k].reserveUrl # Null

\* The payload handed to the merger has no books map, or no entry for the
\* requested ISBN in it.
NoDataFor(p) ==
    /\ settled[p] # Absent
    /\ Readable(settled[p])
    /\ \/ Field(settled[p], "books") = Undefined
       \/ BookDataOf(p) \in {Undefined, Null}

\* C13: when the settled payload has no books map or no entry for the
\* requested ISBN, the merger returns the report with the requested isbn and
\* no entries, and no error was raised.
C13_NoDataIsEmptyReport ==
    \A p \in Procs :
       pc[p] = "done" /\ NoDataFor(p) =>
          /\ outcome[p] = Return([isbn |-> args[p].isbn, libraries |-> << >>])
          /\ raised[p] = NoError

\* C13's case: the payload has data for another ISBN only, and libraries
\* were fetched.
C13_Witness ==
    \E p \in Procs :
       /\ pc[p] = "done"
       /\ NoDataFor(p)
       /\ Keys(Field(settled[p], "books")) = <<(<<"4299062647">>)>>
       /\ args[p].isbn = <<"4000000000">>
       /\ Len(libraries[p]) >= 1
       /\ IsReport(outcome[p].v)

\* The payload handed to the merger has the declared type of BookResponse
\* where the merger reads it: every system's data is an object.
WellTyped(p) ==
    /\ settled[p] # Absent
    /\ Readable(settled[p])
    /\ \A j \in 1..Len(Keys(BookDataOf(p))) : Readable(BookDataOf(p).kv[j].v)

\* The value the payload holds for a library key of a system.
ReportedValue(p, systemId, libKey) ==
    Get(Field(Get(BookDataOf(p), systemId), "libkey"), libKey)

\* The pairs of system ID and library key that the payload reports under a
\* system in status OK or Cache and for which the library list has a record.
Matched(p) ==
    {pair \in {<<BookDataOf(p).kv[j].k, key>> :
                  j \in 1..Len(Keys(BookDataOf(p))), key \in {<<"chuo">>, <<"nishi">>}} :
        /\ ReportedStatus(p, pair[1]) \in {Str(<<"OK">>), Str(<<"Cache">>)}
        /\ Reports(p, pair[1], pair[2])
        /\ HasRecord(p, pair[1], pair[2])}

\* The lending status the merger is to resolve from a per-key value.
Resolved(value) ==
    IF value \in {Undefined, Null, Str(<< >>)} THEN Str(StatusUnknown) ELSE value

\* C14: every entry is named after a library record of the list whose system
\* ID and library key are those under which the payload reports the status
\* the entry carries; and on a payload of the declared type the merge raises
\* no error and emits as many entries as there are reported keys with such
\* a record, so a key without a record adds no entry and no error.
C14_EntriesMatchRecords ==
    \A p \in Procs :
       pc[p] = "done" /\ settled[p] # Absent =>
          /\ \A j \in 1..Len(Entries(p)) :
                LET entry == Entries(p)[j] IN
                /\ \E k \in 1..Len(libraries[p]) :
                      /\ Field(libraries[p][k], "formal") = entry.name
                      /\ Field(libraries[p][k], "systemid") = Str(SystemOf(entry))
                      /\ Field(libraries[p][k], "libkey") = Str(KeyOf(entry))
                /\ Reports(p, SystemOf(entry), KeyOf(entry))
                /\ entry.status
                      = Resolved(ReportedValue(p, SystemOf(entry), KeyOf(entry)))
          /\ WellTyped(p) =>
                /\ raised[p] = NoError
                /\ IsReport(outcome[p].v)
                /\ Len(Entries(p)) = Cardinality(Matched(p))

\* C14's case: a usable system reports two library keys, the library list
\* has a record for one of them only (and a record of another system with
\* the other key's name), and the report has that one entry.
C14_Witness ==
    \E p \in Procs :
       /\ pc[p] = "done"
       /\ raised[p] = NoError
       /\ Reports(p, <<"Chiba_Chiba">>, <<"chuo">>)
       /\ Reports(p, <<"Chiba_Chiba">>, <<"nishi">>)
       /\ ReportedStatus(p, <<"Chiba_Chiba">>) = Str(<<"OK">>)
       /\ ~HasRecord(p, <<"Chiba_Chiba">>, <<"chuo">>)
       /\ HasRecord(p, <<"Chiba_Chiba">>, <<"nishi">>)
       /\ HasRecord(p, <<"Univ_Chiba">>, <<"chuo">>)
       /\ Len(Entries(p)) = 1

\* The entries of p's report made for a system ID and library key.
EntriesFor(p, systemId, libKey) ==
    {j \in 1..Len(Entries(p)) :
        Entries(p)[j].name = Str(systemId \o <<"/">> \o libKey)}

\* C15: on a payload of the declared type, every library key reported under
\* a system in status OK or Cache that has a matching library record gets
\* exactly one entry, whose lending status is the payload's per-key value,
\* or the "unknown" fallback when that value is absent or empty.
C15_OneEntryPerMatchedKey ==
    \A p \in Procs :
       pc[p] = "done" /\ WellTyped(p) =>
          \A pair \in Matched(p) :
             /\ Cardinality(EntriesFor(p, pair[1], pair[2])) = 1
             /\ \A j \in EntriesFor(p, pair[1], pair[2]) :
                   Entries(p)[j].status = Resolved(ReportedValue(p, pair[1], pair[2]))

\* C15's case: a key with an empty status value whose library is listed
\* twice gets the one entry with the fallback status, next to an entry that
\* carries the payload's value.
C15_Witness ==
    \E p \in Procs :
       /\ pc[p] = "done"
       /\ WellTyped(p)
       /\ <<(<<"Chiba_Chiba">>), <<"chuo">>>> \in Matched(p)
       /\ ReportedValue(p, <<"Chiba_Chiba">>, <<"chuo">>) = Str(<< >>)
       /\ Cardinality({k \in 1..Len(libraries[p]) :
                          libraries[p][k] = Library("Chiba_Chiba", "chuo")}) = 2
       /\ \E j \in 1..Len(Entries(p)) :
             /\ Entries(p)[j].name = Str(<<"Chiba_Chiba", "/", "chuo">>)
             /\ Entries(p)[j].status = Str(StatusUnknown)
       /\ \E j \in 1..Len(Entries(p)) : Entries(p)[j].status = Available

\* C16: a report has at most as many entries as there are library records
\* in the list handed to the merger.
C16_EntriesBounded ==
    \A p \in Procs : Len(Entries(p)) <= Len(libraries[p])

\* C16's case: every record of a list of three got its entry.
C16_Witness ==
    \E p \in Procs :
       pc[p] = "done" /\ Len(libraries[p]) = 3 /\ Len(Entries(p)) = 3

\* Where the directory's list first names a system.
DirIndex(p, systemId) ==
    CHOOSE n \in 1..Len(libraries[p]) :
       /\ Field(libraries[p][n], "systemid") = Str(systemId)
       /\ \A m \in 1..(n - 1) : Field(libraries[p][m], "systemid") # Str(systemId)

\* Where the payload's books[isbn] names a system.
PayloadIndex(p, systemId) ==
    CHOOSE n \in 1..Len(BookDataOf(p).kv) : BookDataOf(p).kv[n].k = systemId

\* Where a system's libkey map names a library key.
KeyIndex(p, systemId, libKey) ==
    LET map == Field(Get(BookDataOf(p), systemId), "libkey")
    IN  CHOOSE n \in 1..Len(map.kv) : map.kv[n].k = libKey

\* Entries a and b of p's report stand in the order of their keys in the
\* payload when they belong to the same system.
KeyOrdered(p, a, b) ==
    SystemOf(Entries(p)[a]) = SystemOf(Entries(p)[b]) =>
       KeyIndex(p, SystemOf(Entries(p)[a]), KeyOf(Entries(p)[a]))
          < KeyIndex(p, SystemOf(Entries(p)[b]), KeyOf(Entries(p)[b]))

Initiating(p) == {m \in InFlight(p, "check") : "isbn" \in DOMAIN m.req.params}

\* The system IDs of a comma-separated list.
Split(list) == SelectSeq(list, LAMBDA piece : piece # ",")

\* C18: the system-ID list of the initiating check request names every
\* system ID of the fetched libraries exactly once, names no other system
\* ID, and separates the IDs by commas.
C18_SystemIdsDeduplicated ==
    \A p \in Procs : \A m \in Initiating(p) :
       LET ids == Split(m.req.params.systemid) IN
       /\ \A j \in 1..Len(libraries[p]) :
             CountOf(ids, Field(libraries[p][j], "systemid").s[1]) = 1
       /\ \A k \in 1..Len(ids) : \E j \in 1..Len(libraries[p]) :
             Field(libraries[p][j], "systemid") = Str(<<ids[k]>>)
       /\ Len(ids) >= 1
       /\ Len(m.req.params.systemid) = 2 * Len(ids) - 1

\* C18's case: two different libraries of one system were fetched and the
\* initiating request names that system once.
C18_Witness ==
    \E p \in Procs : \E m \in Initiating(p) :
       /\ Len(libraries[p]) = 2
       /\ libraries[p][1] # libraries[p][2]
       /\ Field(libraries[p][1], "systemid") = Field(libraries[p][2], "systemid")
       /\ m.req.params.systemid = <<"Chiba_Chiba">>

\* Resolution p was called with the empty ISBN.
CalledWithEmptyIsbn(p) == pc[p] # "idle" /\ args[p].isbn = << >>

\* C19 as stated: called with an empty ISBN, the resolution ends with a
\* validation failure and issues no network request.
C19_AsStated ==
    \A p \in Procs :
       CalledWithEmptyIsbn(p) =>
          /\ pc[p] = "done"
          /\ outcome[p].how = "throw"
          /\ {m \in net : m.p = p} = {}
          /\ ~Occurs(events[p], "library?")
          /\ ~Occurs(events[p], "check?")

\* C19 (amended): searchBookInCity does not validate the ISBN.  Called with
\* an empty ISBN it issues the directory request as for any other ISBN;
\* when libraries are found it issues the check request, which carries the
\* empty isbn; and it never ends in a thrown validation failure.
C19_NoIsbnValidation ==
    \A p \in Procs :
       CalledWithEmptyIsbn(p) =>
          /\ Len(events[p]) >= 1 /\ events[p][1] = "library?"
          /\ \A m \in Initiating(p) : m.req.params.isbn = << >>
          /\ Occurs(events[p], "library!") /\ Len(libraries[p]) > 0
             /\ (\A j \in 1..Len(libraries[p]) : Readable(libraries[p][j]))
                => Occurs(events[p], "check?")
          /\ outcome[p].how # "throw"

\* C19's case: a call with the empty ISBN went through directory and check
\* and returned the report for the empty ISBN.
C19_Witness ==
    \E p \in Procs :
       /\ CalledWithEmptyIsbn(p)
       /\ pc[p] = "done"
       /\ Occurs(events[p], "check?")
       /\ outcome[p] = Return([isbn |-> << >>, libraries |-> << >>])

\* The requests resolution p has issued, by kind.
Requests(p) ==
    CountOf(events[p], "library?") + CountOf(events[p], "check?") + Polls(p)

\* C20: a resolution issues exactly one directory request, at most one
\* initiating check request and at most 5 continuation requests, 7 requests
\* at most; and once a request was answered by a failure (no readable body)
\* or an error was raised, it issues no further request.
C20_NoRetry ==
    \A p \in Procs :
       /\ pc[p] # "idle" => CountOf(events[p], "library?") = 1
       /\ CountOf(events[p], "check?") <= 1
       /\ Polls(p) <= 5
       /\ Requests(p) <= 1 + 1 + 5
       /\ \A j \in 1..Len(events[p]) : \A k \in (j + 1)..Len(events[p]) :
             events[p][j] \in {"check!fail", "poll!fail"}
                => events[p][k] \notin {"library?", "check?", "wait", "poll?"}
       /\ raised[p] # NoError => pc[p] = "done" /\ {m \in net : m.p = p} = {}

\* C20's case: a resolution that issued all 7 requests and whose last
\* continuation round failed.
C20_Witness ==
    \E p \in Procs :
       /\ Requests(p) = 7
       /\ Occurs(events[p], "poll!fail")
       /\ pc[p] = "done"

(***************************************************************************)
(* Properties of concurrent resolutions.                                  *)
(***************************************************************************)
\* Everything resolution q holds: its locals, its promise, its requests in
\* flight and its history.
Local(q) ==
    <<pc[q], args[q], libraries[q], session[q], i[q], outcome[q],
      {m \in net : m.p = q}, events[q], observed[q], lastStatus[q], raised[q],
      initial[q], settled[q], received[q]>>

\* The continuation requests of resolution p that are in flight.
Continuations(p) == {m \in InFlight(p, "check") : "session" \in DOMAIN m.req.params}

\* The answers resolution p got to its continuation requests.
PollAnswered(p) ==
    Cardinality({j \in 1..Len(events[p]) : events[p][j] \in PollAnswers})

\* What holds of resolution p whatever the other one does: its continuation
\* requests carry the session of its own initiating response, its round
\* count is the number of its own incomplete rounds, and its result is the
\* merge of its own settled payload with its own libraries and ISBN.
OwnOnly(p) ==
    /\ \A m \in Continuations(p) :
          m.req.params.session = ToStr(Field(initial[p], "session"))
    /\ i[p] = CountOf(events[p], "poll!more")
    /\ Polls(p) = PollAnswered(p) + Cardinality(Continuations(p))
    /\ Occurs(events[p], "merge") =>
          outcome[p] = Return(formatBookResult(settled[p], libraries[p], args[p].isbn))
    /\ pc[p] = "done" /\ Exhausted(p) => outcome[p] = TimeoutOutcome

\* While p waits between rounds, q can take its next step.
NotBlocked(p, q) ==
    pc[p] = "pollWait" /\ pc[q] # "done" => ENABLED ConcStep(q)

\* C21: two concurrent resolutions are independent.  In every state each
\* one's continuation requests carry its own session token and its round
\* count and result follow from its own responses, and one that waits between
\* rounds does not keep the other from its next step; and every step changes
\* what one resolution holds and nothing of the other.
C21_Independent ==
    /\ [](\A p \in Procs : OwnOnly(p) /\ \A q \in Procs \ {p} : NotBlocked(p, q))
    /\ [][\E p \in Procs : \A q \in Procs \ {p} : Local(q)' = Local(q)]_vars

\* C21's case: both resolutions have a continuation request in flight, each
\* with a session of its own, after different numbers of rounds.
C21_Witness ==
    /\ Continuations(1) # {} /\ Continuations(2) # {}
    /\ session[1] = Str(<<"S1">>) /\ session[2] = Str(<<"S2">>)
    /\ i[1] = 2 /\ i[2] = 0

\* C22 as stated: once the surrounding request was cancelled while the
\* poller was polling, the resolution issues no further continuation
\* request, and it ends with a cancellation outcome, which is not the
\* timeout outcome and not a report.
C22_AsStated ==
    \A p \in Procs :
       \A j \in 1..Len(events[p]) :
          events[p][j] = "cancel" =>
             /\ \A k \in (j + 1)..Len(events[p]) : events[p][k] # "poll?"
             /\ pc[p] = "done" =>
                   /\ outcome[p] # TimeoutOutcome
                   /\ ~IsReport(outcome[p].v)

(***************************************************************************)
(* Decoding.                                                              *)
(***************************************************************************)
\* The stage p ran, once it has settled.
StageOf(p) == IF pc[p] = "done" /\ events[p] # << >> THEN events[p][1] ELSE "none"

SyntaxError == Err("SyntaxError", <<"Unexpected token in JSON">>)

\* The response of p came with a success status and a text that is not JSON
\* once the wrapper, if it has one, is taken off.
Malformed(p) ==
    /\ wire[p] # Absent
    /\ wire[p].net = "response"
    /\ wire[p].status = 200
    /\ LET text == wire[p].text
           inner == IF Len(text) >= 2 /\ text[1] = LexCallback /\ text[Len(text)] = LexEnd
                    THEN SubSeq(text, 2, Len(text) - 1) ELSE text
           body == SelectSeq(inner, LAMBDA l : l # LexSpace)
       IN ~ (Len(body) = 1 /\ body[1].lex = "json")

\* C23: when the text of a response is not valid JSON once unwrapped, the
\* directory stage, the check stage and a poll round (and the decoder itself)
\* throw the decode failure; none of them returns an empty list, an empty
\* report or any other value in its place.
C23_DecodeFailurePropagates ==
    \A p \in Procs :
        StageOf(p) \in Stages /\ Malformed(p) => outcome[p] = Throw(SyntaxError)

C23_Witness ==
    /\ StageOf(1) = "getLibraries"
    /\ wire[1] = HttpResponse(200, <<LexCallback, LexJunk, LexEnd>>)
    /\ outcome[1] = Throw(SyntaxError)

\* The decoded payload of p's response, when it has one.
Payload(p) ==
    IF wire[p] # Absent /\ wire[p].net = "response" /\ wire[p].status = 200
       /\ parseJsonpResponse(wire[p].text).how = "return"
    THEN parseJsonpResponse(wire[p].text).v
    ELSE Undefined

\* An object keyed by system, each value holding a mapping by library key.
IsKeyed(v) ==
    /\ v.t = "object"
    /\ \A n \in 1..Len(v.kv) : Field(v.kv[n].v, "libkey").t = "object"

RECURSIVE KeyedCount(_)
KeyedCount(kv) ==
    IF kv = << >> THEN 0
    ELSE Len(Field(Head(kv).v, "libkey").kv) + KeyedCount(Tail(kv))

\* The number of libraries in a directory payload of either shape.
LibraryCount(v) == IF IsArray(v) THEN Len(v.el) ELSE KeyedCount(v.kv)

\* C24, as stated: given a payload that is an array of records or an object
\* keyed by system, the directory lookup returns one record per library of
\* the payload, each with its system id.  getLibraries returns no record for
\* the keyed shape, so this does not hold.
C24_AsStated ==
    \A p \in Procs :
        StageOf(p) = "getLibraries" /\ (IsArray(Payload(p)) \/ IsKeyed(Payload(p)))
        => /\ outcome[p].how = "return"
           /\ Len(outcome[p].v) = LibraryCount(Payload(p))
           /\ \A n \in 1..Len(outcome[p].v) :
                 Field(outcome[p].v[n], "systemid").t = "string"

\* The text has the prefix the decoder recognizes and the terminator.
Wrapped(text) ==
    Len(text) >= 2 /\ text[1] = LexCallback /\ text[Len(text)] = LexEnd

\* A text without its first and last lexeme.
Inside(text) == SubSeq(text, 2, Len(text) - 1)

\* C25: the decoder takes a wrapper off only when the text both starts with
\* "callback(" and ends with ");", and then takes off one layer only: the
\* result is that of parsing what lies between them.  A text with only the
\* prefix, only the terminator or neither is parsed as given.
C25_StripsOneLayerWhenWrapped ==
    \A p \in Procs :
        StageOf(p) = "parseJsonpResponse"
        => outcome[p] = IF Wrapped(wire[p].text)
                        THEN JsonParse(Inside(wire[p].text))
                        ELSE JsonParse(wire[p].text)

\* Reached: of a text wrapped twice only the outer layer is taken off, and
\* what is left is refused.
C25_Witness ==
    /\ StageOf(1) = "parseJsonpResponse"
    /\ wire[1].text = <<LexCallback, LexCallback, LexJson(Arr(<< >>)), LexEnd, LexEnd>>
    /\ outcome[1] = Throw(SyntaxError)

\* C26, as stated: for every JSON document, every call prefix and any white
\* space around the wrapper or inside it, decoding the wrapped text gives the
\* value of the document.  Only "callback(" is recognized, and only at the
\* very start with ");" at the very end, so this does not hold.
C26_AsStated ==
    \A p \in Procs :
        StageOf(p) = "parseJsonpResponse"
        => \A before \in Spaces, open \in {<<LexCallback>>, <<LexOtherCall>>},
              left \in Spaces, right \in Spaces, after \in Spaces, b \in WireBodies :
              wire[p].text = before \o open \o left \o <<LexJson(b)>> \o right
                             \o <<LexEnd>> \o after
              => outcome[p] = Return(b)

\* C26: for every JSON document, decoding "callback(" white space, the
\* document, white space, ");" gives the value of the document, the same as
\* decoding the document alone; with another prefix, or with white space
\* before the prefix or after the terminator, decoding throws.
C26_RoundTripForCallback ==
    \A p \in Procs :
        StageOf(p) = "parseJsonpResponse"
        => \A before \in Spaces, open \in {<<LexCallback>>, <<LexOtherCall>>},
              left \in Spaces, right \in Spaces, after \in Spaces, b \in WireBodies :
              wire[p].text = before \o open \o left \o <<LexJson(b)>> \o right
                             \o <<LexEnd>> \o after
              => outcome[p] = IF open = <<LexCallback>> /\ before = << >> /\ after = << >>
                              THEN parseJsonpResponse(<<LexJson(b)>>)
                              ELSE Throw(SyntaxError)

C26_Witness ==
    /\ StageOf(1) = "parseJsonpResponse"
    /\ wire[1].text = <<LexCallback, LexSpace, LexJson(KeyedDirectory), LexSpace, LexEnd>>
    /\ outcome[1] = Return(KeyedDirectory)

(***************************************************************************)
(* The directory lookup within a resolution.                               *)
(***************************************************************************)
\* C27, as stated: when a city is given, every library record the resolution
\* goes on with has an address that contains the city's name.  getLibraries
\* passes the city to the upstream and keeps whatever comes back, so this
\* does not hold.
C27_AsStated ==
    \A p \in Procs :
        args[p].city # << >>
        => \A n \in 1..Len(libraries[p]) :
              libraries[p][n].t = "object"
              => /\ Field(libraries[p][n], "address").t = "string"
                 /\ Contains(Field(libraries[p][n], "address").s, args[p].city)

(***************************************************************************)
(* Startup.                                                                *)
(***************************************************************************)
\* process.env.CALIL_APPLICATION_KEY is not set, or set to nothing.
KeyAbsent == apiKey \in {Undefined, Str(<< >>)}

\* C28: without an API key the server never gets as far as connecting its
\* transport: startup ends in the process exiting, no tool call is taken up,
\* no request is sent and no call is answered, with an error or otherwise.
C28_MissingKeyIsFatalAtStartup ==
    KeyAbsent
    => /\ server \in {"starting", "exited"}
       /\ net = {}
       /\ \A p \in Procs :
             pc[p] = "idle" /\ events[p] = << >> /\ outcome[p] = Pending

C28_Witness == apiKey = Undefined /\ server = "exited"

(***************************************************************************)
(* Reservation URLs.                                                       *)
(***************************************************************************)
\* A template with each of its placeholders, wherever it stands, replaced.
RECURSIVE Filled(_, _, _, _)
Filled(template, isbn, systemId, libKey) ==
    IF template = << >> THEN << >>
    ELSE (CASE Head(template) = "{{isbn}}" -> isbn
            [] Head(template) = "{{systemid}}" -> systemId
            [] Head(template) = "{{libkey}}" -> libKey
            [] OTHER -> <<Head(template)>>)
         \o Filled(Tail(template), isbn, systemId, libKey)

\* The reservation URL template of the system an entry belongs to.
TemplateOf(p, entry) == Field(Get(BookDataOf(p), SystemOf(entry)), "reserveurl")

\* C29, as stated: an entry of a system with a template, whose status is not
\* "no holdings", carries the template with every placeholder replaced by the
\* ISBN, the system ID and the library key; an entry of a system without a
\* template carries no URL.  String.replace with a string pattern replaces
\* the first occurrence only, so this does not hold of a template that names
\* a placeholder twice.
C29_AsStated ==
    \A p \in Procs : \A j \in 1..Len(Entries(p)) :
       LET entry == Entries(p)[j] IN
       /\ TemplateOf(p, entry).t = "string" /\ entry.status # Str(NoHoldings)
          => entry.reserveUrl = Str(Filled(TemplateOf(p, entry).s, args[p].isbn,
                                           SystemOf(entry), KeyOf(entry)))
       /\ TemplateOf(p, entry) = Undefined => entry.reserveUrl = Null

(***************************************************************************)
(* The wait between rounds.                                                *)
(***************************************************************************)
\* C30: every continuation request comes right after a wait that has run
\* out; every wait is started right after a response that asks for another
\* round, and a request lies between any two waits, so exactly one wait lies
\* between the initiating response and the first continuation request and
\* between two continuation requests; after a response with continue = 0 no
\* wait is started.
C30_OneWaitBeforeEveryRound ==
    \A p \in Procs :
       LET h == events[p] IN
       /\ \A j \in 1..Len(h) : h[j] = "poll?" => j > 1 /\ h[j - 1] = "wait"
       /\ \A j \in 1..Len(h) :
             h[j] = "wait" => j > 1 /\ h[j - 1] \in {"check!more", "poll!more"}
       /\ \A j, k \in 1..Len(h) :
             j < k /\ h[j] = "wait" /\ h[k] = "wait"
             => \E n \in (j + 1)..(k - 1) : h[n] = "poll?"
       /\ \A j, k \in 1..Len(h) :
             j < k /\ h[j] \in {"check!done", "poll!done"} => h[k] # "wait"

\* Reached: two rounds, each after its wait, the second answered continue = 0.
C30_Witness ==
    \E p \in Procs :
       /\ pc[p] = "done"
       /\ CountOf(events[p], "wait") = 2
       /\ CountOf(events[p], "poll?") = 2
       /\ Occurs(events[p], "poll!done")

(***************************************************************************)
(* The session token.                                                      *)
(***************************************************************************)
\* C31: every continuation request carries the session of the initiating
\* check response, together with the key and the format and nothing else (no
\* ISBN, no system IDs); the token stays the one of the initiating response
\* in every round, whatever session the responses of the rounds carry.
C31_SameTokenEveryRound ==
    \A p \in Procs :
       /\ pc[p] \in {"pollWait", "pollResults"}
          => session[p] = Field(initial[p], "session")
       /\ pc[p] = "pollResults"
          => /\ InFlight(p, "check") # {}
             /\ \A m \in InFlight(p, "check") :
                   /\ DOMAIN m.req.params = {"appkey", "session", "format"}
                   /\ m.req.params.session = ToStr(Field(initial[p], "session"))

\* Reached: a later round asks with the token S1 of the initiating response
\* although the round before it was answered with session S2.
C31_Witness ==
    \E p \in Procs :
       /\ pc[p] = "pollResults"
       /\ i[p] >= 1
       /\ Field(initial[p], "session") = Str(<<"S1">>)
       /\ received[p] = Str(<<"S2">>)
       /\ \E m \in InFlight(p, "check") : m.req.params.session = <<"S1">>

(***************************************************************************)
(* The payload of the completing round.                                    *)
(***************************************************************************)
\* Resolution p ended with a merge after a round answered continue = 0.
CompletedByPolling(p) ==
    /\ pc[p] = "done"
    /\ Occurs(events[p], "poll!done")

\* C32: when a round is answered with continue = 0, the payload merged into
\* the report is that of this response: it carries continue = 0, which
\* neither the initiating response nor any earlier round did, and the session
\* of the last response; and the round count is the number of rounds that
\* were answered incomplete, each of them counted once.
C32_CompletingPayloadReturned ==
    \A p \in Procs :
       /\ CompletedByPolling(p)
          => /\ settled[p] # Absent
             /\ Field(settled[p], "continue") = Num(0)
             /\ Field(settled[p], "session") = received[p]
             /\ Field(initial[p], "continue") = Num(1)
             /\ observed[p] = Num(0)
       /\ i[p] = CountOf(events[p], "poll!more")

\* Reached: the second round completes, with a session and books other than
\* those of the initiating response, after one incomplete round.
C32_Witness ==
    \E p \in Procs :
       /\ CompletedByPolling(p)
       /\ i[p] = 1
       /\ Field(settled[p], "session") # Field(initial[p], "session")
       /\ Field(settled[p], "books") # Field(initial[p], "books")
       /\ Field(settled[p], "books") # Undefined

(***************************************************************************)
(* Termination.                                                            *)
(***************************************************************************)
\* C33: when every request is answered in the end and every wait runs out,
\* a resolution that was started ends, and ends by returning a report or an
\* error object, whatever the responses are.
C33_EveryResolutionEnds ==
    \A p \in Procs :
       (pc[p] # "idle")
       ~> (/\ pc[p] = "done"
           /\ outcome[p].how = "return"
           /\ (IsReport(outcome[p].v) \/ IsErrorObject(outcome[p].v)))

\* Reached: a resolution that was answered continue = 1 in every round has
\* ended with the timeout.
C33_Witness ==
    \E p \in Procs :
       /\ pc[p] = "done"
       /\ CountOf(events[p], "poll!more") = maxRetries
       /\ outcome[p] = TimeoutOutcome

(***************************************************************************)
(* The search_books tool.                                                  *)
(***************************************************************************)
\* A value is a string that is not empty.
Given(v) == v.t = "string" /\ v.s # << >>

\* The arguments name no area, or name no ISBN and hold no query with one.
Invalid(arguments) ==
    \/ ~Given(arguments.prefecture)
    \/ ~Given(arguments.city)
    \/ /\ ~Given(arguments.isbn)
       /\ \/ arguments.query.t # "string"
          \/ \A n \in 1..Len(arguments.query.s) : arguments.query.s[n] \notin IsbnPieces

\* The message of an answer that is an error object.
ErrorOf(a) ==
    IF a # Pending /\ IsErrorObject(a.content[1].text[1].v)
    THEN a.content[1].text[1].v.error ELSE << >>

\* C34: a search_books call without a prefecture or a city that is a string,
\* or without an ISBN and without one in its query, is answered with an
\* error object, and searchBookInCity is not called for it: the resolution
\* stays idle and no request is sent.  The error names the missing area or
\* the missing ISBN.
C34_InvalidCallsRejected ==
    \A p \in Procs :
       call[p] # Absent /\ Invalid(call[p])
       => /\ ErrorOf(answer[p]) # << >>
          /\ pc[p] = "idle" /\ events[p] = << >> /\ outcome[p] = Pending
          /\ \A m \in net : m.p # p
          /\ ~Given(call[p].prefecture) \/ ~Given(call[p].city)
             => ErrorOf(answer[p]) = <<"Prefecture and city parameters are required">>
          /\ Given(call[p].prefecture) /\ Given(call[p].city)
             /\ call[p].query.t = "string"
             => ErrorOf(answer[p]) = <<"Could not determine ISBN from query">>

\* Reached: a call with an area, no ISBN and a query without an ISBN is
\* refused before anything was asked of the upstream.
C34_Witness ==
    /\ call[1] = [query |-> Str(<<"kokoro">>), prefecture |-> Str(<<"Chiba-ken">>),
                  city |-> Str(<<"Chiba-shi">>), isbn |-> Str(<< >>)]
    /\ ErrorOf(answer[1]) = <<"Could not determine ISBN from query">>
    /\ pc[1] = "idle"
    /\ net = {}

(***************************************************************************)
(* What searchBookInCity settles with.                                     *)
(***************************************************************************)
\* C35: searchBookInCity never throws: whatever the upstream answers, its
\* promise is fulfilled, with a report (isbn and libraries) or with an object
\* holding one error message, never with both in one value.
C35_NeverThrows ==
    \A p \in Procs :
       /\ outcome[p].how \in {"pending", "return"}
       /\ pc[p] = "done"
          => /\ outcome[p].how = "return"
             /\ IsReport(outcome[p].v) \/ IsErrorObject(outcome[p].v)
             /\ ~ (IsReport(outcome[p].v) /\ IsErrorObject(outcome[p].v))
             /\ "error" \in DOMAIN outcome[p].v
                => DOMAIN outcome[p].v \cap {"isbn", "libraries"} = {}

\* Reached: an error raised while merging a payload is returned as an error
\* object.
C35_Witness ==
    \E p \in Procs :
       /\ pc[p] = "done"
       /\ raised[p].name = "TypeError"
       /\ settled[p] # Absent
       /\ outcome[p] = Return([error |-> raised[p].message])

====
